---- MODULE Spec2Model ----
(***************************************************************************)
(* Model of backend/open_webui/utils/pdf_generator.py: the RTL detector    *)
(* and normaliser, the message renderer, the timestamp formatter, the      *)
(* document assembler and the font resolution of generate_chat_pdf.        *)
(*                                                                         *)
(* A Python str is a sequence of code points (integers).                   *)
(***************************************************************************)
EXTENDS Integers, Sequences, FiniteSets, TLC

(***************************************************************************)
(* Code points used by the model.                                          *)
(***************************************************************************)
CP == [ tab |-> 9, nl |-> 10, vt |-> 11, ff |-> 12, cr |-> 13, sp |-> 32,
        quot |-> 34, hash |-> 35, amp |-> 38, apos |-> 39, comma |-> 44,
        hyphen |-> 45, slash |-> 47, zero |-> 48, colon |-> 58, semi |-> 59,
        lt |-> 60, gt |-> 62, excl |-> 33, dot |-> 46, quest |-> 63,
        underscore |-> 95, SIGMA |-> 931, finalSigma |-> 962, sigma |-> 963,
        nbsp |-> 160, laquo |-> 171, sharpS |-> 223, eacute |-> 233,
        lam |-> 1604, heh |-> 1607,
        fatha |-> 1614, tatweel |-> 1600, zwj |-> 8205, rle |-> 8235,
        pdf |-> 8236, lri |-> 8294, ideoSp |-> 12288,
        A |-> 65, Z |-> 90, a |-> 97, z |-> 122,
        hebAlef |-> 1488, arAlef |-> 1575, arAin |-> 1593,
        syrAlaph |-> 1808, arSupBeh |-> 1872, thaHaa |-> 1920,
        samAlaf |-> 2048, cjk |-> 20013 ]

\* The literal strings of the source, written as code points.
STR == [ amp  |-> <<38, 97, 109, 112, 59>>,             \* "&amp;"
         lt   |-> <<38, 108, 116, 59>>,                 \* "&lt;"
         gt   |-> <<38, 103, 116, 59>>,                 \* "&gt;"
         quot |-> <<38, 113, 117, 111, 116, 59>>,       \* "&quot;"
         apos |-> <<38, 35, 120, 50, 55, 59>>,          \* "&#x27;"
         br   |-> <<60, 98, 114, 47, 62>>,              \* "<br/>"
         user |-> <<117, 115, 101, 114>>,               \* "user"
         assistant |-> <<97, 115, 115, 105, 115, 116, 97, 110, 116>>,
         hi   |-> <<72, 105>>,                          \* "Hi"
         m    |-> <<60, 109, 62>> ]                     \* "<m>"

RECURSIVE Flatten(_)
\* "".join(parts)
Flatten(parts) ==
    IF parts = <<>> THEN <<>> ELSE Head(parts) \o Flatten(Tail(parts))

RECURSIVE JoinWith(_, _)
\* sep.join(parts)
JoinWith(parts, sep) ==
    IF parts = <<>> THEN <<>>
    ELSE IF Len(parts) = 1 THEN parts[1]
    ELSE parts[1] \o sep \o JoinWith(Tail(parts), sep)

Chars(s) == { s[i] : i \in 1..Len(s) }

\* a list comprehension: the function f on 1..n evaluated once, as a list
List(f) == SubSeq(f, 1, Len(f))

(***************************************************************************)
(* Tables of the Unicode character database (version 14.0, the one of      *)
(* CPython 3.11), as sorted sequences of code point ranges <<lo, hi, ...>>.*)
(***************************************************************************)
RECURSIVE RangeIndex(_, _, _, _)
\* the index in table[lo..hi] of the range that holds c; 0 when none does
RangeIndex(table, c, lo, hi) ==
    IF lo > hi THEN 0
    ELSE IF c < table[(lo + hi) \div 2][1]
    THEN RangeIndex(table, c, lo, (lo + hi) \div 2 - 1)
    ELSE IF c > table[(lo + hi) \div 2][2]
    THEN RangeIndex(table, c, (lo + hi) \div 2 + 1, hi)
    ELSE (lo + hi) \div 2

InTable(table, c) == RangeIndex(table, c, 1, Len(table)) # 0

\* the case properties str.title() works with:
\*   cased, ignorable      the properties Cased and Case_Ignorable
\*   lower, title          <<lo, hi, step, delta>>: the code points lo,
\*                         lo + step, ..., hi map to themselves plus delta
\*   lower_full, title_full  <<c, c, mapping>>: mappings to several characters
UnicodeCase ==
    [
      cased |->
        <<
          <<65, 90>>, <<97, 122>>, <<170, 170>>, <<181, 181>>, <<186, 186>>,
          <<192, 214>>, <<216, 246>>, <<248, 442>>, <<444, 447>>,
          <<452, 659>>, <<661, 696>>, <<704, 705>>, <<736, 740>>,
          <<837, 837>>, <<880, 883>>, <<886, 887>>, <<890, 893>>,
          <<895, 895>>, <<902, 902>>, <<904, 906>>, <<908, 908>>,
          <<910, 929>>, <<931, 1013>>, <<1015, 1153>>, <<1162, 1327>>,
          <<1329, 1366>>, <<1376, 1416>>, <<4256, 4293>>, <<4295, 4295>>,
          <<4301, 4301>>, <<4304, 4346>>, <<4349, 4351>>, <<5024, 5109>>,
          <<5112, 5117>>, <<7296, 7304>>, <<7312, 7354>>, <<7357, 7359>>,
          <<7424, 7615>>, <<7680, 7957>>, <<7960, 7965>>, <<7968, 8005>>,
          <<8008, 8013>>, <<8016, 8023>>, <<8025, 8025>>, <<8027, 8027>>,
          <<8029, 8029>>, <<8031, 8061>>, <<8064, 8116>>, <<8118, 8124>>,
          <<8126, 8126>>, <<8130, 8132>>, <<8134, 8140>>, <<8144, 8147>>,
          <<8150, 8155>>, <<8160, 8172>>, <<8178, 8180>>, <<8182, 8188>>,
          <<8305, 8305>>, <<8319, 8319>>, <<8336, 8348>>, <<8450, 8450>>,
          <<8455, 8455>>, <<8458, 8467>>, <<8469, 8469>>, <<8473, 8477>>,
          <<8484, 8484>>, <<8486, 8486>>, <<8488, 8488>>, <<8490, 8493>>,
          <<8495, 8500>>, <<8505, 8505>>, <<8508, 8511>>, <<8517, 8521>>,
          <<8526, 8526>>, <<8544, 8575>>, <<8579, 8580>>, <<9398, 9449>>,
          <<11264, 11492>>, <<11499, 11502>>, <<11506, 11507>>,
          <<11520, 11557>>, <<11559, 11559>>, <<11565, 11565>>,
          <<42560, 42605>>, <<42624, 42653>>, <<42786, 42887>>,
          <<42891, 42894>>, <<42896, 42954>>, <<42960, 42961>>,
          <<42963, 42963>>, <<42965, 42969>>, <<42997, 42998>>,
          <<43000, 43002>>, <<43824, 43866>>, <<43868, 43880>>,
          <<43888, 43967>>, <<64256, 64262>>, <<64275, 64279>>,
          <<65313, 65338>>, <<65345, 65370>>, <<66560, 66639>>,
          <<66736, 66771>>, <<66776, 66811>>, <<66928, 66938>>,
          <<66940, 66954>>, <<66956, 66962>>, <<66964, 66965>>,
          <<66967, 66977>>, <<66979, 66993>>, <<66995, 67001>>,
          <<67003, 67004>>, <<67456, 67456>>, <<67459, 67461>>,
          <<67463, 67504>>, <<67506, 67514>>, <<68736, 68786>>,
          <<68800, 68850>>, <<71840, 71903>>, <<93760, 93823>>,
          <<119808, 119892>>, <<119894, 119964>>, <<119966, 119967>>,
          <<119970, 119970>>, <<119973, 119974>>, <<119977, 119980>>,
          <<119982, 119993>>, <<119995, 119995>>, <<119997, 120003>>,
          <<120005, 120069>>, <<120071, 120074>>, <<120077, 120084>>,
          <<120086, 120092>>, <<120094, 120121>>, <<120123, 120126>>,
          <<120128, 120132>>, <<120134, 120134>>, <<120138, 120144>>,
          <<120146, 120485>>, <<120488, 120512>>, <<120514, 120538>>,
          <<120540, 120570>>, <<120572, 120596>>, <<120598, 120628>>,
          <<120630, 120654>>, <<120656, 120686>>, <<120688, 120712>>,
          <<120714, 120744>>, <<120746, 120770>>, <<120772, 120779>>,
          <<122624, 122633>>, <<122635, 122654>>, <<125184, 125251>>,
          <<127280, 127305>>, <<127312, 127337>>, <<127344, 127369>>
        >>,
      ignorable |->
        <<
          <<39, 39>>, <<46, 46>>, <<58, 58>>, <<94, 94>>, <<96, 96>>,
          <<168, 168>>, <<173, 173>>, <<175, 175>>, <<180, 180>>,
          <<183, 184>>, <<688, 879>>, <<884, 885>>, <<890, 890>>,
          <<900, 901>>, <<903, 903>>, <<1155, 1161>>, <<1369, 1369>>,
          <<1375, 1375>>, <<1425, 1469>>, <<1471, 1471>>, <<1473, 1474>>,
          <<1476, 1477>>, <<1479, 1479>>, <<1524, 1524>>, <<1536, 1541>>,
          <<1552, 1562>>, <<1564, 1564>>, <<1600, 1600>>, <<1611, 1631>>,
          <<1648, 1648>>, <<1750, 1757>>, <<1759, 1768>>, <<1770, 1773>>,
          <<1807, 1807>>, <<1809, 1809>>, <<1840, 1866>>, <<1958, 1968>>,
          <<2027, 2037>>, <<2042, 2042>>, <<2045, 2045>>, <<2070, 2093>>,
          <<2137, 2139>>, <<2184, 2184>>, <<2192, 2193>>, <<2200, 2207>>,
          <<2249, 2306>>, <<2362, 2362>>, <<2364, 2364>>, <<2369, 2376>>,
          <<2381, 2381>>, <<2385, 2391>>, <<2402, 2403>>, <<2417, 2417>>,
          <<2433, 2433>>, <<2492, 2492>>, <<2497, 2500>>, <<2509, 2509>>,
          <<2530, 2531>>, <<2558, 2558>>, <<2561, 2562>>, <<2620, 2620>>,
          <<2625, 2626>>, <<2631, 2632>>, <<2635, 2637>>, <<2641, 2641>>,
          <<2672, 2673>>, <<2677, 2677>>, <<2689, 2690>>, <<2748, 2748>>,
          <<2753, 2757>>, <<2759, 2760>>, <<2765, 2765>>, <<2786, 2787>>,
          <<2810, 2815>>, <<2817, 2817>>, <<2876, 2876>>, <<2879, 2879>>,
          <<2881, 2884>>, <<2893, 2893>>, <<2901, 2902>>, <<2914, 2915>>,
          <<2946, 2946>>, <<3008, 3008>>, <<3021, 3021>>, <<3072, 3072>>,
          <<3076, 3076>>, <<3132, 3132>>, <<3134, 3136>>, <<3142, 3144>>,
          <<3146, 3149>>, <<3157, 3158>>, <<3170, 3171>>, <<3201, 3201>>,
          <<3260, 3260>>, <<3263, 3263>>, <<3270, 3270>>, <<3276, 3277>>,
          <<3298, 3299>>, <<3328, 3329>>, <<3387, 3388>>, <<3393, 3396>>,
          <<3405, 3405>>, <<3426, 3427>>, <<3457, 3457>>, <<3530, 3530>>,
          <<3538, 3540>>, <<3542, 3542>>, <<3633, 3633>>, <<3636, 3642>>,
          <<3654, 3662>>, <<3761, 3761>>, <<3764, 3772>>, <<3782, 3782>>,
          <<3784, 3789>>, <<3864, 3865>>, <<3893, 3893>>, <<3895, 3895>>,
          <<3897, 3897>>, <<3953, 3966>>, <<3968, 3972>>, <<3974, 3975>>,
          <<3981, 3991>>, <<3993, 4028>>, <<4038, 4038>>, <<4141, 4144>>,
          <<4146, 4151>>, <<4153, 4154>>, <<4157, 4158>>, <<4184, 4185>>,
          <<4190, 4192>>, <<4209, 4212>>, <<4226, 4226>>, <<4229, 4230>>,
          <<4237, 4237>>, <<4253, 4253>>, <<4348, 4348>>, <<4957, 4959>>,
          <<5906, 5908>>, <<5938, 5939>>, <<5970, 5971>>, <<6002, 6003>>,
          <<6068, 6069>>, <<6071, 6077>>, <<6086, 6086>>, <<6089, 6099>>,
          <<6103, 6103>>, <<6109, 6109>>, <<6155, 6159>>, <<6211, 6211>>,
          <<6277, 6278>>, <<6313, 6313>>, <<6432, 6434>>, <<6439, 6440>>,
          <<6450, 6450>>, <<6457, 6459>>, <<6679, 6680>>, <<6683, 6683>>,
          <<6742, 6742>>, <<6744, 6750>>, <<6752, 6752>>, <<6754, 6754>>,
          <<6757, 6764>>, <<6771, 6780>>, <<6783, 6783>>, <<6823, 6823>>,
          <<6832, 6862>>, <<6912, 6915>>, <<6964, 6964>>, <<6966, 6970>>,
          <<6972, 6972>>, <<6978, 6978>>, <<7019, 7027>>, <<7040, 7041>>,
          <<7074, 7077>>, <<7080, 7081>>, <<7083, 7085>>, <<7142, 7142>>,
          <<7144, 7145>>, <<7149, 7149>>, <<7151, 7153>>, <<7212, 7219>>,
          <<7222, 7223>>, <<7288, 7293>>, <<7376, 7378>>, <<7380, 7392>>,
          <<7394, 7400>>, <<7405, 7405>>, <<7412, 7412>>, <<7416, 7417>>,
          <<7468, 7530>>, <<7544, 7544>>, <<7579, 7679>>, <<8125, 8125>>,
          <<8127, 8129>>, <<8141, 8143>>, <<8157, 8159>>, <<8173, 8175>>,
          <<8189, 8190>>, <<8203, 8207>>, <<8216, 8217>>, <<8228, 8228>>,
          <<8231, 8231>>, <<8234, 8238>>, <<8288, 8292>>, <<8294, 8303>>,
          <<8305, 8305>>, <<8319, 8319>>, <<8336, 8348>>, <<8400, 8432>>,
          <<11388, 11389>>, <<11503, 11505>>, <<11631, 11631>>,
          <<11647, 11647>>, <<11744, 11775>>, <<11823, 11823>>,
          <<12293, 12293>>, <<12330, 12333>>, <<12337, 12341>>,
          <<12347, 12347>>, <<12441, 12446>>, <<12540, 12542>>,
          <<40981, 40981>>, <<42232, 42237>>, <<42508, 42508>>,
          <<42607, 42610>>, <<42612, 42621>>, <<42623, 42623>>,
          <<42652, 42655>>, <<42736, 42737>>, <<42752, 42785>>,
          <<42864, 42864>>, <<42888, 42890>>, <<42994, 42996>>,
          <<43000, 43001>>, <<43010, 43010>>, <<43014, 43014>>,
          <<43019, 43019>>, <<43045, 43046>>, <<43052, 43052>>,
          <<43204, 43205>>, <<43232, 43249>>, <<43263, 43263>>,
          <<43302, 43309>>, <<43335, 43345>>, <<43392, 43394>>,
          <<43443, 43443>>, <<43446, 43449>>, <<43452, 43453>>,
          <<43471, 43471>>, <<43493, 43494>>, <<43561, 43566>>,
          <<43569, 43570>>, <<43573, 43574>>, <<43587, 43587>>,
          <<43596, 43596>>, <<43632, 43632>>, <<43644, 43644>>,
          <<43696, 43696>>, <<43698, 43700>>, <<43703, 43704>>,
          <<43710, 43711>>, <<43713, 43713>>, <<43741, 43741>>,
          <<43756, 43757>>, <<43763, 43764>>, <<43766, 43766>>,
          <<43867, 43871>>, <<43881, 43883>>, <<44005, 44005>>,
          <<44008, 44008>>, <<44013, 44013>>, <<64286, 64286>>,
          <<64434, 64450>>, <<65024, 65039>>, <<65043, 65043>>,
          <<65056, 65071>>, <<65106, 65106>>, <<65109, 65109>>,
          <<65279, 65279>>, <<65287, 65287>>, <<65294, 65294>>,
          <<65306, 65306>>, <<65342, 65342>>, <<65344, 65344>>,
          <<65392, 65392>>, <<65438, 65439>>, <<65507, 65507>>,
          <<65529, 65531>>, <<66045, 66045>>, <<66272, 66272>>,
          <<66422, 66426>>, <<67456, 67461>>, <<67463, 67504>>,
          <<67506, 67514>>, <<68097, 68099>>, <<68101, 68102>>,
          <<68108, 68111>>, <<68152, 68154>>, <<68159, 68159>>,
          <<68325, 68326>>, <<68900, 68903>>, <<69291, 69292>>,
          <<69446, 69456>>, <<69506, 69509>>, <<69633, 69633>>,
          <<69688, 69702>>, <<69744, 69744>>, <<69747, 69748>>,
          <<69759, 69761>>, <<69811, 69814>>, <<69817, 69818>>,
          <<69821, 69821>>, <<69826, 69826>>, <<69837, 69837>>,
          <<69888, 69890>>, <<69927, 69931>>, <<69933, 69940>>,
          <<70003, 70003>>, <<70016, 70017>>, <<70070, 70078>>,
          <<70089, 70092>>, <<70095, 70095>>, <<70191, 70193>>,
          <<70196, 70196>>, <<70198, 70199>>, <<70206, 70206>>,
          <<70367, 70367>>, <<70371, 70378>>, <<70400, 70401>>,
          <<70459, 70460>>, <<70464, 70464>>, <<70502, 70508>>,
          <<70512, 70516>>, <<70712, 70719>>, <<70722, 70724>>,
          <<70726, 70726>>, <<70750, 70750>>, <<70835, 70840>>,
          <<70842, 70842>>, <<70847, 70848>>, <<70850, 70851>>,
          <<71090, 71093>>, <<71100, 71101>>, <<71103, 71104>>,
          <<71132, 71133>>, <<71219, 71226>>, <<71229, 71229>>,
          <<71231, 71232>>, <<71339, 71339>>, <<71341, 71341>>,
          <<71344, 71349>>, <<71351, 71351>>, <<71453, 71455>>,
          <<71458, 71461>>, <<71463, 71467>>, <<71727, 71735>>,
          <<71737, 71738>>, <<71995, 71996>>, <<71998, 71998>>,
          <<72003, 72003>>, <<72148, 72151>>, <<72154, 72155>>,
          <<72160, 72160>>, <<72193, 72202>>, <<72243, 72248>>,
          <<72251, 72254>>, <<72263, 72263>>, <<72273, 72278>>,
          <<72281, 72283>>, <<72330, 72342>>, <<72344, 72345>>,
          <<72752, 72758>>, <<72760, 72765>>, <<72767, 72767>>,
          <<72850, 72871>>, <<72874, 72880>>, <<72882, 72883>>,
          <<72885, 72886>>, <<73009, 73014>>, <<73018, 73018>>,
          <<73020, 73021>>, <<73023, 73029>>, <<73031, 73031>>,
          <<73104, 73105>>, <<73109, 73109>>, <<73111, 73111>>,
          <<73459, 73460>>, <<78896, 78904>>, <<92912, 92916>>,
          <<92976, 92982>>, <<92992, 92995>>, <<94031, 94031>>,
          <<94095, 94111>>, <<94176, 94177>>, <<94179, 94180>>,
          <<110576, 110579>>, <<110581, 110587>>, <<110589, 110590>>,
          <<113821, 113822>>, <<113824, 113827>>, <<118528, 118573>>,
          <<118576, 118598>>, <<119143, 119145>>, <<119155, 119170>>,
          <<119173, 119179>>, <<119210, 119213>>, <<119362, 119364>>,
          <<121344, 121398>>, <<121403, 121452>>, <<121461, 121461>>,
          <<121476, 121476>>, <<121499, 121503>>, <<121505, 121519>>,
          <<122880, 122886>>, <<122888, 122904>>, <<122907, 122913>>,
          <<122915, 122916>>, <<122918, 122922>>, <<123184, 123197>>,
          <<123566, 123566>>, <<123628, 123631>>, <<125136, 125142>>,
          <<125252, 125259>>, <<127995, 127999>>, <<917505, 917505>>,
          <<917536, 917631>>, <<917760, 917999>>
        >>,
      lower |->
        <<
          <<65, 90, 1, 32>>, <<192, 214, 1, 32>>, <<216, 222, 1, 32>>,
          <<256, 302, 2, 1>>, <<306, 310, 2, 1>>, <<313, 327, 2, 1>>,
          <<330, 374, 2, 1>>, <<376, 376, 1, -121>>, <<377, 381, 2, 1>>,
          <<385, 385, 1, 210>>, <<386, 388, 2, 1>>, <<390, 390, 1, 206>>,
          <<391, 391, 1, 1>>, <<393, 394, 1, 205>>, <<395, 395, 1, 1>>,
          <<398, 398, 1, 79>>, <<399, 399, 1, 202>>, <<400, 400, 1, 203>>,
          <<401, 401, 1, 1>>, <<403, 403, 1, 205>>, <<404, 404, 1, 207>>,
          <<406, 406, 1, 211>>, <<407, 407, 1, 209>>, <<408, 408, 1, 1>>,
          <<412, 412, 1, 211>>, <<413, 413, 1, 213>>, <<415, 415, 1, 214>>,
          <<416, 420, 2, 1>>, <<422, 422, 1, 218>>, <<423, 423, 1, 1>>,
          <<425, 425, 1, 218>>, <<428, 428, 1, 1>>, <<430, 430, 1, 218>>,
          <<431, 431, 1, 1>>, <<433, 434, 1, 217>>, <<435, 437, 2, 1>>,
          <<439, 439, 1, 219>>, <<440, 440, 1, 1>>, <<444, 444, 1, 1>>,
          <<452, 452, 1, 2>>, <<453, 453, 1, 1>>, <<455, 455, 1, 2>>,
          <<456, 456, 1, 1>>, <<458, 458, 1, 2>>, <<459, 475, 2, 1>>,
          <<478, 494, 2, 1>>, <<497, 497, 1, 2>>, <<498, 500, 2, 1>>,
          <<502, 502, 1, -97>>, <<503, 503, 1, -56>>, <<504, 542, 2, 1>>,
          <<544, 544, 1, -130>>, <<546, 562, 2, 1>>, <<570, 570, 1, 10795>>,
          <<571, 571, 1, 1>>, <<573, 573, 1, -163>>, <<574, 574, 1, 10792>>,
          <<577, 577, 1, 1>>, <<579, 579, 1, -195>>, <<580, 580, 1, 69>>,
          <<581, 581, 1, 71>>, <<582, 590, 2, 1>>, <<880, 882, 2, 1>>,
          <<886, 886, 1, 1>>, <<895, 895, 1, 116>>, <<902, 902, 1, 38>>,
          <<904, 906, 1, 37>>, <<908, 908, 1, 64>>, <<910, 911, 1, 63>>,
          <<913, 929, 1, 32>>, <<931, 939, 1, 32>>, <<975, 975, 1, 8>>,
          <<984, 1006, 2, 1>>, <<1012, 1012, 1, -60>>, <<1015, 1015, 1, 1>>,
          <<1017, 1017, 1, -7>>, <<1018, 1018, 1, 1>>,
          <<1021, 1023, 1, -130>>, <<1024, 1039, 1, 80>>,
          <<1040, 1071, 1, 32>>, <<1120, 1152, 2, 1>>, <<1162, 1214, 2, 1>>,
          <<1216, 1216, 1, 15>>, <<1217, 1229, 2, 1>>, <<1232, 1326, 2, 1>>,
          <<1329, 1366, 1, 48>>, <<4256, 4293, 1, 7264>>,
          <<4295, 4295, 1, 7264>>, <<4301, 4301, 1, 7264>>,
          <<5024, 5103, 1, 38864>>, <<5104, 5109, 1, 8>>,
          <<7312, 7354, 1, -3008>>, <<7357, 7359, 1, -3008>>,
          <<7680, 7828, 2, 1>>, <<7838, 7838, 1, -7615>>,
          <<7840, 7934, 2, 1>>, <<7944, 7951, 1, -8>>, <<7960, 7965, 1, -8>>,
          <<7976, 7983, 1, -8>>, <<7992, 7999, 1, -8>>,
          <<8008, 8013, 1, -8>>, <<8025, 8031, 2, -8>>,
          <<8040, 8047, 1, -8>>, <<8072, 8079, 1, -8>>,
          <<8088, 8095, 1, -8>>, <<8104, 8111, 1, -8>>,
          <<8120, 8121, 1, -8>>, <<8122, 8123, 1, -74>>,
          <<8124, 8124, 1, -9>>, <<8136, 8139, 1, -86>>,
          <<8140, 8140, 1, -9>>, <<8152, 8153, 1, -8>>,
          <<8154, 8155, 1, -100>>, <<8168, 8169, 1, -8>>,
          <<8170, 8171, 1, -112>>, <<8172, 8172, 1, -7>>,
          <<8184, 8185, 1, -128>>, <<8186, 8187, 1, -126>>,
          <<8188, 8188, 1, -9>>, <<8486, 8486, 1, -7517>>,
          <<8490, 8490, 1, -8383>>, <<8491, 8491, 1, -8262>>,
          <<8498, 8498, 1, 28>>, <<8544, 8559, 1, 16>>, <<8579, 8579, 1, 1>>,
          <<9398, 9423, 1, 26>>, <<11264, 11311, 1, 48>>,
          <<11360, 11360, 1, 1>>, <<11362, 11362, 1, -10743>>,
          <<11363, 11363, 1, -3814>>, <<11364, 11364, 1, -10727>>,
          <<11367, 11371, 2, 1>>, <<11373, 11373, 1, -10780>>,
          <<11374, 11374, 1, -10749>>, <<11375, 11375, 1, -10783>>,
          <<11376, 11376, 1, -10782>>, <<11378, 11378, 1, 1>>,
          <<11381, 11381, 1, 1>>, <<11390, 11391, 1, -10815>>,
          <<11392, 11490, 2, 1>>, <<11499, 11501, 2, 1>>,
          <<11506, 11506, 1, 1>>, <<42560, 42604, 2, 1>>,
          <<42624, 42650, 2, 1>>, <<42786, 42798, 2, 1>>,
          <<42802, 42862, 2, 1>>, <<42873, 42875, 2, 1>>,
          <<42877, 42877, 1, -35332>>, <<42878, 42886, 2, 1>>,
          <<42891, 42891, 1, 1>>, <<42893, 42893, 1, -42280>>,
          <<42896, 42898, 2, 1>>, <<42902, 42920, 2, 1>>,
          <<42922, 42922, 1, -42308>>, <<42923, 42923, 1, -42319>>,
          <<42924, 42924, 1, -42315>>, <<42925, 42925, 1, -42305>>,
          <<42926, 42926, 1, -42308>>, <<42928, 42928, 1, -42258>>,
          <<42929, 42929, 1, -42282>>, <<42930, 42930, 1, -42261>>,
          <<42931, 42931, 1, 928>>, <<42932, 42946, 2, 1>>,
          <<42948, 42948, 1, -48>>, <<42949, 42949, 1, -42307>>,
          <<42950, 42950, 1, -35384>>, <<42951, 42953, 2, 1>>,
          <<42960, 42960, 1, 1>>, <<42966, 42968, 2, 1>>,
          <<42997, 42997, 1, 1>>, <<65313, 65338, 1, 32>>,
          <<66560, 66599, 1, 40>>, <<66736, 66771, 1, 40>>,
          <<66928, 66938, 1, 39>>, <<66940, 66954, 1, 39>>,
          <<66956, 66962, 1, 39>>, <<66964, 66965, 1, 39>>,
          <<68736, 68786, 1, 64>>, <<71840, 71871, 1, 32>>,
          <<93760, 93791, 1, 32>>, <<125184, 125217, 1, 34>>
        >>,
      lower_full |->
        <<
          <<304, 304, <<105, 775>>>>
        >>,
      title |->
        <<
          <<97, 122, 1, -32>>, <<181, 181, 1, 743>>, <<224, 246, 1, -32>>,
          <<248, 254, 1, -32>>, <<255, 255, 1, 121>>, <<257, 303, 2, -1>>,
          <<305, 305, 1, -232>>, <<307, 311, 2, -1>>, <<314, 328, 2, -1>>,
          <<331, 375, 2, -1>>, <<378, 382, 2, -1>>, <<383, 383, 1, -300>>,
          <<384, 384, 1, 195>>, <<387, 389, 2, -1>>, <<392, 392, 1, -1>>,
          <<396, 396, 1, -1>>, <<402, 402, 1, -1>>, <<405, 405, 1, 97>>,
          <<409, 409, 1, -1>>, <<410, 410, 1, 163>>, <<414, 414, 1, 130>>,
          <<417, 421, 2, -1>>, <<424, 424, 1, -1>>, <<429, 429, 1, -1>>,
          <<432, 432, 1, -1>>, <<436, 438, 2, -1>>, <<441, 441, 1, -1>>,
          <<445, 445, 1, -1>>, <<447, 447, 1, 56>>, <<452, 452, 1, 1>>,
          <<454, 454, 1, -1>>, <<455, 455, 1, 1>>, <<457, 457, 1, -1>>,
          <<458, 458, 1, 1>>, <<460, 476, 2, -1>>, <<477, 477, 1, -79>>,
          <<479, 495, 2, -1>>, <<497, 497, 1, 1>>, <<499, 501, 2, -1>>,
          <<505, 543, 2, -1>>, <<547, 563, 2, -1>>, <<572, 572, 1, -1>>,
          <<575, 576, 1, 10815>>, <<578, 578, 1, -1>>, <<583, 591, 2, -1>>,
          <<592, 592, 1, 10783>>, <<593, 593, 1, 10780>>,
          <<594, 594, 1, 10782>>, <<595, 595, 1, -210>>,
          <<596, 596, 1, -206>>, <<598, 599, 1, -205>>,
          <<601, 601, 1, -202>>, <<603, 603, 1, -203>>,
          <<604, 604, 1, 42319>>, <<608, 608, 1, -205>>,
          <<609, 609, 1, 42315>>, <<611, 611, 1, -207>>,
          <<613, 613, 1, 42280>>, <<614, 614, 1, 42308>>,
          <<616, 616, 1, -209>>, <<617, 617, 1, -211>>,
          <<618, 618, 1, 42308>>, <<619, 619, 1, 10743>>,
          <<620, 620, 1, 42305>>, <<623, 623, 1, -211>>,
          <<625, 625, 1, 10749>>, <<626, 626, 1, -213>>,
          <<629, 629, 1, -214>>, <<637, 637, 1, 10727>>,
          <<640, 640, 1, -218>>, <<642, 642, 1, 42307>>,
          <<643, 643, 1, -218>>, <<647, 647, 1, 42282>>,
          <<648, 648, 1, -218>>, <<649, 649, 1, -69>>, <<650, 651, 1, -217>>,
          <<652, 652, 1, -71>>, <<658, 658, 1, -219>>,
          <<669, 669, 1, 42261>>, <<670, 670, 1, 42258>>,
          <<837, 837, 1, 84>>, <<881, 883, 2, -1>>, <<887, 887, 1, -1>>,
          <<891, 893, 1, 130>>, <<940, 940, 1, -38>>, <<941, 943, 1, -37>>,
          <<945, 961, 1, -32>>, <<962, 962, 1, -31>>, <<963, 971, 1, -32>>,
          <<972, 972, 1, -64>>, <<973, 974, 1, -63>>, <<976, 976, 1, -62>>,
          <<977, 977, 1, -57>>, <<981, 981, 1, -47>>, <<982, 982, 1, -54>>,
          <<983, 983, 1, -8>>, <<985, 1007, 2, -1>>, <<1008, 1008, 1, -86>>,
          <<1009, 1009, 1, -80>>, <<1010, 1010, 1, 7>>,
          <<1011, 1011, 1, -116>>, <<1013, 1013, 1, -96>>,
          <<1016, 1016, 1, -1>>, <<1019, 1019, 1, -1>>,
          <<1072, 1103, 1, -32>>, <<1104, 1119, 1, -80>>,
          <<1121, 1153, 2, -1>>, <<1163, 1215, 2, -1>>,
          <<1218, 1230, 2, -1>>, <<1231, 1231, 1, -15>>,
          <<1233, 1327, 2, -1>>, <<1377, 1414, 1, -48>>,
          <<5112, 5117, 1, -8>>, <<7296, 7296, 1, -6254>>,
          <<7297, 7297, 1, -6253>>, <<7298, 7298, 1, -6244>>,
          <<7299, 7300, 1, -6242>>, <<7301, 7301, 1, -6243>>,
          <<7302, 7302, 1, -6236>>, <<7303, 7303, 1, -6181>>,
          <<7304, 7304, 1, 35266>>, <<7545, 7545, 1, 35332>>,
          <<7549, 7549, 1, 3814>>, <<7566, 7566, 1, 35384>>,
          <<7681, 7829, 2, -1>>, <<7835, 7835, 1, -59>>,
          <<7841, 7935, 2, -1>>, <<7936, 7943, 1, 8>>, <<7952, 7957, 1, 8>>,
          <<7968, 7975, 1, 8>>, <<7984, 7991, 1, 8>>, <<8000, 8005, 1, 8>>,
          <<8017, 8023, 2, 8>>, <<8032, 8039, 1, 8>>, <<8048, 8049, 1, 74>>,
          <<8050, 8053, 1, 86>>, <<8054, 8055, 1, 100>>,
          <<8056, 8057, 1, 128>>, <<8058, 8059, 1, 112>>,
          <<8060, 8061, 1, 126>>, <<8064, 8071, 1, 8>>, <<8080, 8087, 1, 8>>,
          <<8096, 8103, 1, 8>>, <<8112, 8113, 1, 8>>, <<8115, 8115, 1, 9>>,
          <<8126, 8126, 1, -7205>>, <<8131, 8131, 1, 9>>,
          <<8144, 8145, 1, 8>>, <<8160, 8161, 1, 8>>, <<8165, 8165, 1, 7>>,
          <<8179, 8179, 1, 9>>, <<8526, 8526, 1, -28>>,
          <<8560, 8575, 1, -16>>, <<8580, 8580, 1, -1>>,
          <<9424, 9449, 1, -26>>, <<11312, 11359, 1, -48>>,
          <<11361, 11361, 1, -1>>, <<11365, 11365, 1, -10795>>,
          <<11366, 11366, 1, -10792>>, <<11368, 11372, 2, -1>>,
          <<11379, 11379, 1, -1>>, <<11382, 11382, 1, -1>>,
          <<11393, 11491, 2, -1>>, <<11500, 11502, 2, -1>>,
          <<11507, 11507, 1, -1>>, <<11520, 11557, 1, -7264>>,
          <<11559, 11559, 1, -7264>>, <<11565, 11565, 1, -7264>>,
          <<42561, 42605, 2, -1>>, <<42625, 42651, 2, -1>>,
          <<42787, 42799, 2, -1>>, <<42803, 42863, 2, -1>>,
          <<42874, 42876, 2, -1>>, <<42879, 42887, 2, -1>>,
          <<42892, 42892, 1, -1>>, <<42897, 42899, 2, -1>>,
          <<42900, 42900, 1, 48>>, <<42903, 42921, 2, -1>>,
          <<42933, 42947, 2, -1>>, <<42952, 42954, 2, -1>>,
          <<42961, 42961, 1, -1>>, <<42967, 42969, 2, -1>>,
          <<42998, 42998, 1, -1>>, <<43859, 43859, 1, -928>>,
          <<43888, 43967, 1, -38864>>, <<65345, 65370, 1, -32>>,
          <<66600, 66639, 1, -40>>, <<66776, 66811, 1, -40>>,
          <<66967, 66977, 1, -39>>, <<66979, 66993, 1, -39>>,
          <<66995, 67001, 1, -39>>, <<67003, 67004, 1, -39>>,
          <<68800, 68850, 1, -64>>, <<71872, 71903, 1, -32>>,
          <<93792, 93823, 1, -32>>, <<125218, 125251, 1, -34>>
        >>,
      title_full |->
        <<
          <<223, 223, <<83, 115>>>>, <<329, 329, <<700, 78>>>>,
          <<496, 496, <<74, 780>>>>, <<912, 912, <<921, 776, 769>>>>,
          <<944, 944, <<933, 776, 769>>>>, <<1415, 1415, <<1333, 1410>>>>,
          <<7830, 7830, <<72, 817>>>>, <<7831, 7831, <<84, 776>>>>,
          <<7832, 7832, <<87, 778>>>>, <<7833, 7833, <<89, 778>>>>,
          <<7834, 7834, <<65, 702>>>>, <<8016, 8016, <<933, 787>>>>,
          <<8018, 8018, <<933, 787, 768>>>>,
          <<8020, 8020, <<933, 787, 769>>>>,
          <<8022, 8022, <<933, 787, 834>>>>, <<8114, 8114, <<8122, 837>>>>,
          <<8116, 8116, <<902, 837>>>>, <<8118, 8118, <<913, 834>>>>,
          <<8119, 8119, <<913, 834, 837>>>>, <<8130, 8130, <<8138, 837>>>>,
          <<8132, 8132, <<905, 837>>>>, <<8134, 8134, <<919, 834>>>>,
          <<8135, 8135, <<919, 834, 837>>>>,
          <<8146, 8146, <<921, 776, 768>>>>,
          <<8147, 8147, <<921, 776, 769>>>>, <<8150, 8150, <<921, 834>>>>,
          <<8151, 8151, <<921, 776, 834>>>>,
          <<8162, 8162, <<933, 776, 768>>>>,
          <<8163, 8163, <<933, 776, 769>>>>, <<8164, 8164, <<929, 787>>>>,
          <<8166, 8166, <<933, 834>>>>, <<8167, 8167, <<933, 776, 834>>>>,
          <<8178, 8178, <<8186, 837>>>>, <<8180, 8180, <<911, 837>>>>,
          <<8182, 8182, <<937, 834>>>>, <<8183, 8183, <<937, 834, 837>>>>,
          <<64256, 64256, <<70, 102>>>>, <<64257, 64257, <<70, 105>>>>,
          <<64258, 64258, <<70, 108>>>>, <<64259, 64259, <<70, 102, 105>>>>,
          <<64260, 64260, <<70, 102, 108>>>>, <<64261, 64261, <<83, 116>>>>,
          <<64262, 64262, <<83, 116>>>>, <<64275, 64275, <<1348, 1398>>>>,
          <<64276, 64276, <<1348, 1381>>>>, <<64277, 64277, <<1348, 1387>>>>,
          <<64278, 64278, <<1358, 1398>>>>, <<64279, 64279, <<1348, 1389>>>>
        >>
    ]

\* the character classes of textwrap and re:
\*   space    str.isspace(), what str.strip() strips
\*   word     \w of re on a str
\*   digit    \d of re on a str
UnicodeText ==
    [
      space |->
        <<
          <<9, 13>>, <<28, 32>>, <<133, 133>>, <<160, 160>>, <<5760, 5760>>,
          <<8192, 8202>>, <<8232, 8233>>, <<8239, 8239>>, <<8287, 8287>>,
          <<12288, 12288>>
        >>,
      word |->
        <<
          <<48, 57>>, <<65, 90>>, <<95, 95>>, <<97, 122>>, <<170, 170>>,
          <<178, 179>>, <<181, 181>>, <<185, 186>>, <<188, 190>>,
          <<192, 214>>, <<216, 246>>, <<248, 705>>, <<710, 721>>,
          <<736, 740>>, <<748, 748>>, <<750, 750>>, <<880, 884>>,
          <<886, 887>>, <<890, 893>>, <<895, 895>>, <<902, 902>>,
          <<904, 906>>, <<908, 908>>, <<910, 929>>, <<931, 1013>>,
          <<1015, 1153>>, <<1162, 1327>>, <<1329, 1366>>, <<1369, 1369>>,
          <<1376, 1416>>, <<1488, 1514>>, <<1519, 1522>>, <<1568, 1610>>,
          <<1632, 1641>>, <<1646, 1647>>, <<1649, 1747>>, <<1749, 1749>>,
          <<1765, 1766>>, <<1774, 1788>>, <<1791, 1791>>, <<1808, 1808>>,
          <<1810, 1839>>, <<1869, 1957>>, <<1969, 1969>>, <<1984, 2026>>,
          <<2036, 2037>>, <<2042, 2042>>, <<2048, 2069>>, <<2074, 2074>>,
          <<2084, 2084>>, <<2088, 2088>>, <<2112, 2136>>, <<2144, 2154>>,
          <<2160, 2183>>, <<2185, 2190>>, <<2208, 2249>>, <<2308, 2361>>,
          <<2365, 2365>>, <<2384, 2384>>, <<2392, 2401>>, <<2406, 2415>>,
          <<2417, 2432>>, <<2437, 2444>>, <<2447, 2448>>, <<2451, 2472>>,
          <<2474, 2480>>, <<2482, 2482>>, <<2486, 2489>>, <<2493, 2493>>,
          <<2510, 2510>>, <<2524, 2525>>, <<2527, 2529>>, <<2534, 2545>>,
          <<2548, 2553>>, <<2556, 2556>>, <<2565, 2570>>, <<2575, 2576>>,
          <<2579, 2600>>, <<2602, 2608>>, <<2610, 2611>>, <<2613, 2614>>,
          <<2616, 2617>>, <<2649, 2652>>, <<2654, 2654>>, <<2662, 2671>>,
          <<2674, 2676>>, <<2693, 2701>>, <<2703, 2705>>, <<2707, 2728>>,
          <<2730, 2736>>, <<2738, 2739>>, <<2741, 2745>>, <<2749, 2749>>,
          <<2768, 2768>>, <<2784, 2785>>, <<2790, 2799>>, <<2809, 2809>>,
          <<2821, 2828>>, <<2831, 2832>>, <<2835, 2856>>, <<2858, 2864>>,
          <<2866, 2867>>, <<2869, 2873>>, <<2877, 2877>>, <<2908, 2909>>,
          <<2911, 2913>>, <<2918, 2927>>, <<2929, 2935>>, <<2947, 2947>>,
          <<2949, 2954>>, <<2958, 2960>>, <<2962, 2965>>, <<2969, 2970>>,
          <<2972, 2972>>, <<2974, 2975>>, <<2979, 2980>>, <<2984, 2986>>,
          <<2990, 3001>>, <<3024, 3024>>, <<3046, 3058>>, <<3077, 3084>>,
          <<3086, 3088>>, <<3090, 3112>>, <<3114, 3129>>, <<3133, 3133>>,
          <<3160, 3162>>, <<3165, 3165>>, <<3168, 3169>>, <<3174, 3183>>,
          <<3192, 3198>>, <<3200, 3200>>, <<3205, 3212>>, <<3214, 3216>>,
          <<3218, 3240>>, <<3242, 3251>>, <<3253, 3257>>, <<3261, 3261>>,
          <<3293, 3294>>, <<3296, 3297>>, <<3302, 3311>>, <<3313, 3314>>,
          <<3332, 3340>>, <<3342, 3344>>, <<3346, 3386>>, <<3389, 3389>>,
          <<3406, 3406>>, <<3412, 3414>>, <<3416, 3425>>, <<3430, 3448>>,
          <<3450, 3455>>, <<3461, 3478>>, <<3482, 3505>>, <<3507, 3515>>,
          <<3517, 3517>>, <<3520, 3526>>, <<3558, 3567>>, <<3585, 3632>>,
          <<3634, 3635>>, <<3648, 3654>>, <<3664, 3673>>, <<3713, 3714>>,
          <<3716, 3716>>, <<3718, 3722>>, <<3724, 3747>>, <<3749, 3749>>,
          <<3751, 3760>>, <<3762, 3763>>, <<3773, 3773>>, <<3776, 3780>>,
          <<3782, 3782>>, <<3792, 3801>>, <<3804, 3807>>, <<3840, 3840>>,
          <<3872, 3891>>, <<3904, 3911>>, <<3913, 3948>>, <<3976, 3980>>,
          <<4096, 4138>>, <<4159, 4169>>, <<4176, 4181>>, <<4186, 4189>>,
          <<4193, 4193>>, <<4197, 4198>>, <<4206, 4208>>, <<4213, 4225>>,
          <<4238, 4238>>, <<4240, 4249>>, <<4256, 4293>>, <<4295, 4295>>,
          <<4301, 4301>>, <<4304, 4346>>, <<4348, 4680>>, <<4682, 4685>>,
          <<4688, 4694>>, <<4696, 4696>>, <<4698, 4701>>, <<4704, 4744>>,
          <<4746, 4749>>, <<4752, 4784>>, <<4786, 4789>>, <<4792, 4798>>,
          <<4800, 4800>>, <<4802, 4805>>, <<4808, 4822>>, <<4824, 4880>>,
          <<4882, 4885>>, <<4888, 4954>>, <<4969, 4988>>, <<4992, 5007>>,
          <<5024, 5109>>, <<5112, 5117>>, <<5121, 5740>>, <<5743, 5759>>,
          <<5761, 5786>>, <<5792, 5866>>, <<5870, 5880>>, <<5888, 5905>>,
          <<5919, 5937>>, <<5952, 5969>>, <<5984, 5996>>, <<5998, 6000>>,
          <<6016, 6067>>, <<6103, 6103>>, <<6108, 6108>>, <<6112, 6121>>,
          <<6128, 6137>>, <<6160, 6169>>, <<6176, 6264>>, <<6272, 6276>>,
          <<6279, 6312>>, <<6314, 6314>>, <<6320, 6389>>, <<6400, 6430>>,
          <<6470, 6509>>, <<6512, 6516>>, <<6528, 6571>>, <<6576, 6601>>,
          <<6608, 6618>>, <<6656, 6678>>, <<6688, 6740>>, <<6784, 6793>>,
          <<6800, 6809>>, <<6823, 6823>>, <<6917, 6963>>, <<6981, 6988>>,
          <<6992, 7001>>, <<7043, 7072>>, <<7086, 7141>>, <<7168, 7203>>,
          <<7232, 7241>>, <<7245, 7293>>, <<7296, 7304>>, <<7312, 7354>>,
          <<7357, 7359>>, <<7401, 7404>>, <<7406, 7411>>, <<7413, 7414>>,
          <<7418, 7418>>, <<7424, 7615>>, <<7680, 7957>>, <<7960, 7965>>,
          <<7968, 8005>>, <<8008, 8013>>, <<8016, 8023>>, <<8025, 8025>>,
          <<8027, 8027>>, <<8029, 8029>>, <<8031, 8061>>, <<8064, 8116>>,
          <<8118, 8124>>, <<8126, 8126>>, <<8130, 8132>>, <<8134, 8140>>,
          <<8144, 8147>>, <<8150, 8155>>, <<8160, 8172>>, <<8178, 8180>>,
          <<8182, 8188>>, <<8304, 8305>>, <<8308, 8313>>, <<8319, 8329>>,
          <<8336, 8348>>, <<8450, 8450>>, <<8455, 8455>>, <<8458, 8467>>,
          <<8469, 8469>>, <<8473, 8477>>, <<8484, 8484>>, <<8486, 8486>>,
          <<8488, 8488>>, <<8490, 8493>>, <<8495, 8505>>, <<8508, 8511>>,
          <<8517, 8521>>, <<8526, 8526>>, <<8528, 8585>>, <<9312, 9371>>,
          <<9450, 9471>>, <<10102, 10131>>, <<11264, 11492>>,
          <<11499, 11502>>, <<11506, 11507>>, <<11517, 11517>>,
          <<11520, 11557>>, <<11559, 11559>>, <<11565, 11565>>,
          <<11568, 11623>>, <<11631, 11631>>, <<11648, 11670>>,
          <<11680, 11686>>, <<11688, 11694>>, <<11696, 11702>>,
          <<11704, 11710>>, <<11712, 11718>>, <<11720, 11726>>,
          <<11728, 11734>>, <<11736, 11742>>, <<11823, 11823>>,
          <<12293, 12295>>, <<12321, 12329>>, <<12337, 12341>>,
          <<12344, 12348>>, <<12353, 12438>>, <<12445, 12447>>,
          <<12449, 12538>>, <<12540, 12543>>, <<12549, 12591>>,
          <<12593, 12686>>, <<12690, 12693>>, <<12704, 12735>>,
          <<12784, 12799>>, <<12832, 12841>>, <<12872, 12879>>,
          <<12881, 12895>>, <<12928, 12937>>, <<12977, 12991>>,
          <<13312, 19903>>, <<19968, 42124>>, <<42192, 42237>>,
          <<42240, 42508>>, <<42512, 42539>>, <<42560, 42606>>,
          <<42623, 42653>>, <<42656, 42735>>, <<42775, 42783>>,
          <<42786, 42888>>, <<42891, 42954>>, <<42960, 42961>>,
          <<42963, 42963>>, <<42965, 42969>>, <<42994, 43009>>,
          <<43011, 43013>>, <<43015, 43018>>, <<43020, 43042>>,
          <<43056, 43061>>, <<43072, 43123>>, <<43138, 43187>>,
          <<43216, 43225>>, <<43250, 43255>>, <<43259, 43259>>,
          <<43261, 43262>>, <<43264, 43301>>, <<43312, 43334>>,
          <<43360, 43388>>, <<43396, 43442>>, <<43471, 43481>>,
          <<43488, 43492>>, <<43494, 43518>>, <<43520, 43560>>,
          <<43584, 43586>>, <<43588, 43595>>, <<43600, 43609>>,
          <<43616, 43638>>, <<43642, 43642>>, <<43646, 43695>>,
          <<43697, 43697>>, <<43701, 43702>>, <<43705, 43709>>,
          <<43712, 43712>>, <<43714, 43714>>, <<43739, 43741>>,
          <<43744, 43754>>, <<43762, 43764>>, <<43777, 43782>>,
          <<43785, 43790>>, <<43793, 43798>>, <<43808, 43814>>,
          <<43816, 43822>>, <<43824, 43866>>, <<43868, 43881>>,
          <<43888, 44002>>, <<44016, 44025>>, <<44032, 55203>>,
          <<55216, 55238>>, <<55243, 55291>>, <<63744, 64109>>,
          <<64112, 64217>>, <<64256, 64262>>, <<64275, 64279>>,
          <<64285, 64285>>, <<64287, 64296>>, <<64298, 64310>>,
          <<64312, 64316>>, <<64318, 64318>>, <<64320, 64321>>,
          <<64323, 64324>>, <<64326, 64433>>, <<64467, 64829>>,
          <<64848, 64911>>, <<64914, 64967>>, <<65008, 65019>>,
          <<65136, 65140>>, <<65142, 65276>>, <<65296, 65305>>,
          <<65313, 65338>>, <<65345, 65370>>, <<65382, 65470>>,
          <<65474, 65479>>, <<65482, 65487>>, <<65490, 65495>>,
          <<65498, 65500>>, <<65536, 65547>>, <<65549, 65574>>,
          <<65576, 65594>>, <<65596, 65597>>, <<65599, 65613>>,
          <<65616, 65629>>, <<65664, 65786>>, <<65799, 65843>>,
          <<65856, 65912>>, <<65930, 65931>>, <<66176, 66204>>,
          <<66208, 66256>>, <<66273, 66299>>, <<66304, 66339>>,
          <<66349, 66378>>, <<66384, 66421>>, <<66432, 66461>>,
          <<66464, 66499>>, <<66504, 66511>>, <<66513, 66517>>,
          <<66560, 66717>>, <<66720, 66729>>, <<66736, 66771>>,
          <<66776, 66811>>, <<66816, 66855>>, <<66864, 66915>>,
          <<66928, 66938>>, <<66940, 66954>>, <<66956, 66962>>,
          <<66964, 66965>>, <<66967, 66977>>, <<66979, 66993>>,
          <<66995, 67001>>, <<67003, 67004>>, <<67072, 67382>>,
          <<67392, 67413>>, <<67424, 67431>>, <<67456, 67461>>,
          <<67463, 67504>>, <<67506, 67514>>, <<67584, 67589>>,
          <<67592, 67592>>, <<67594, 67637>>, <<67639, 67640>>,
          <<67644, 67644>>, <<67647, 67669>>, <<67672, 67702>>,
          <<67705, 67742>>, <<67751, 67759>>, <<67808, 67826>>,
          <<67828, 67829>>, <<67835, 67867>>, <<67872, 67897>>,
          <<67968, 68023>>, <<68028, 68047>>, <<68050, 68096>>,
          <<68112, 68115>>, <<68117, 68119>>, <<68121, 68149>>,
          <<68160, 68168>>, <<68192, 68222>>, <<68224, 68255>>,
          <<68288, 68295>>, <<68297, 68324>>, <<68331, 68335>>,
          <<68352, 68405>>, <<68416, 68437>>, <<68440, 68466>>,
          <<68472, 68497>>, <<68521, 68527>>, <<68608, 68680>>,
          <<68736, 68786>>, <<68800, 68850>>, <<68858, 68899>>,
          <<68912, 68921>>, <<69216, 69246>>, <<69248, 69289>>,
          <<69296, 69297>>, <<69376, 69415>>, <<69424, 69445>>,
          <<69457, 69460>>, <<69488, 69505>>, <<69552, 69579>>,
          <<69600, 69622>>, <<69635, 69687>>, <<69714, 69743>>,
          <<69745, 69746>>, <<69749, 69749>>, <<69763, 69807>>,
          <<69840, 69864>>, <<69872, 69881>>, <<69891, 69926>>,
          <<69942, 69951>>, <<69956, 69956>>, <<69959, 69959>>,
          <<69968, 70002>>, <<70006, 70006>>, <<70019, 70066>>,
          <<70081, 70084>>, <<70096, 70106>>, <<70108, 70108>>,
          <<70113, 70132>>, <<70144, 70161>>, <<70163, 70187>>,
          <<70272, 70278>>, <<70280, 70280>>, <<70282, 70285>>,
          <<70287, 70301>>, <<70303, 70312>>, <<70320, 70366>>,
          <<70384, 70393>>, <<70405, 70412>>, <<70415, 70416>>,
          <<70419, 70440>>, <<70442, 70448>>, <<70450, 70451>>,
          <<70453, 70457>>, <<70461, 70461>>, <<70480, 70480>>,
          <<70493, 70497>>, <<70656, 70708>>, <<70727, 70730>>,
          <<70736, 70745>>, <<70751, 70753>>, <<70784, 70831>>,
          <<70852, 70853>>, <<70855, 70855>>, <<70864, 70873>>,
          <<71040, 71086>>, <<71128, 71131>>, <<71168, 71215>>,
          <<71236, 71236>>, <<71248, 71257>>, <<71296, 71338>>,
          <<71352, 71352>>, <<71360, 71369>>, <<71424, 71450>>,
          <<71472, 71483>>, <<71488, 71494>>, <<71680, 71723>>,
          <<71840, 71922>>, <<71935, 71942>>, <<71945, 71945>>,
          <<71948, 71955>>, <<71957, 71958>>, <<71960, 71983>>,
          <<71999, 71999>>, <<72001, 72001>>, <<72016, 72025>>,
          <<72096, 72103>>, <<72106, 72144>>, <<72161, 72161>>,
          <<72163, 72163>>, <<72192, 72192>>, <<72203, 72242>>,
          <<72250, 72250>>, <<72272, 72272>>, <<72284, 72329>>,
          <<72349, 72349>>, <<72368, 72440>>, <<72704, 72712>>,
          <<72714, 72750>>, <<72768, 72768>>, <<72784, 72812>>,
          <<72818, 72847>>, <<72960, 72966>>, <<72968, 72969>>,
          <<72971, 73008>>, <<73030, 73030>>, <<73040, 73049>>,
          <<73056, 73061>>, <<73063, 73064>>, <<73066, 73097>>,
          <<73112, 73112>>, <<73120, 73129>>, <<73440, 73458>>,
          <<73648, 73648>>, <<73664, 73684>>, <<73728, 74649>>,
          <<74752, 74862>>, <<74880, 75075>>, <<77712, 77808>>,
          <<77824, 78894>>, <<82944, 83526>>, <<92160, 92728>>,
          <<92736, 92766>>, <<92768, 92777>>, <<92784, 92862>>,
          <<92864, 92873>>, <<92880, 92909>>, <<92928, 92975>>,
          <<92992, 92995>>, <<93008, 93017>>, <<93019, 93025>>,
          <<93027, 93047>>, <<93053, 93071>>, <<93760, 93846>>,
          <<93952, 94026>>, <<94032, 94032>>, <<94099, 94111>>,
          <<94176, 94177>>, <<94179, 94179>>, <<94208, 100343>>,
          <<100352, 101589>>, <<101632, 101640>>, <<110576, 110579>>,
          <<110581, 110587>>, <<110589, 110590>>, <<110592, 110882>>,
          <<110928, 110930>>, <<110948, 110951>>, <<110960, 111355>>,
          <<113664, 113770>>, <<113776, 113788>>, <<113792, 113800>>,
          <<113808, 113817>>, <<119520, 119539>>, <<119648, 119672>>,
          <<119808, 119892>>, <<119894, 119964>>, <<119966, 119967>>,
          <<119970, 119970>>, <<119973, 119974>>, <<119977, 119980>>,
          <<119982, 119993>>, <<119995, 119995>>, <<119997, 120003>>,
          <<120005, 120069>>, <<120071, 120074>>, <<120077, 120084>>,
          <<120086, 120092>>, <<120094, 120121>>, <<120123, 120126>>,
          <<120128, 120132>>, <<120134, 120134>>, <<120138, 120144>>,
          <<120146, 120485>>, <<120488, 120512>>, <<120514, 120538>>,
          <<120540, 120570>>, <<120572, 120596>>, <<120598, 120628>>,
          <<120630, 120654>>, <<120656, 120686>>, <<120688, 120712>>,
          <<120714, 120744>>, <<120746, 120770>>, <<120772, 120779>>,
          <<120782, 120831>>, <<122624, 122654>>, <<123136, 123180>>,
          <<123191, 123197>>, <<123200, 123209>>, <<123214, 123214>>,
          <<123536, 123565>>, <<123584, 123627>>, <<123632, 123641>>,
          <<124896, 124902>>, <<124904, 124907>>, <<124909, 124910>>,
          <<124912, 124926>>, <<124928, 125124>>, <<125127, 125135>>,
          <<125184, 125251>>, <<125259, 125259>>, <<125264, 125273>>,
          <<126065, 126123>>, <<126125, 126127>>, <<126129, 126132>>,
          <<126209, 126253>>, <<126255, 126269>>, <<126464, 126467>>,
          <<126469, 126495>>, <<126497, 126498>>, <<126500, 126500>>,
          <<126503, 126503>>, <<126505, 126514>>, <<126516, 126519>>,
          <<126521, 126521>>, <<126523, 126523>>, <<126530, 126530>>,
          <<126535, 126535>>, <<126537, 126537>>, <<126539, 126539>>,
          <<126541, 126543>>, <<126545, 126546>>, <<126548, 126548>>,
          <<126551, 126551>>, <<126553, 126553>>, <<126555, 126555>>,
          <<126557, 126557>>, <<126559, 126559>>, <<126561, 126562>>,
          <<126564, 126564>>, <<126567, 126570>>, <<126572, 126578>>,
          <<126580, 126583>>, <<126585, 126588>>, <<126590, 126590>>,
          <<126592, 126601>>, <<126603, 126619>>, <<126625, 126627>>,
          <<126629, 126633>>, <<126635, 126651>>, <<127232, 127244>>,
          <<130032, 130041>>, <<131072, 173791>>, <<173824, 177976>>,
          <<177984, 178205>>, <<178208, 183969>>, <<183984, 191456>>,
          <<194560, 195101>>, <<196608, 201546>>
        >>,
      digit |->
        <<
          <<48, 57>>, <<1632, 1641>>, <<1776, 1785>>, <<1984, 1993>>,
          <<2406, 2415>>, <<2534, 2543>>, <<2662, 2671>>, <<2790, 2799>>,
          <<2918, 2927>>, <<3046, 3055>>, <<3174, 3183>>, <<3302, 3311>>,
          <<3430, 3439>>, <<3558, 3567>>, <<3664, 3673>>, <<3792, 3801>>,
          <<3872, 3881>>, <<4160, 4169>>, <<4240, 4249>>, <<6112, 6121>>,
          <<6160, 6169>>, <<6470, 6479>>, <<6608, 6617>>, <<6784, 6793>>,
          <<6800, 6809>>, <<6992, 7001>>, <<7088, 7097>>, <<7232, 7241>>,
          <<7248, 7257>>, <<42528, 42537>>, <<43216, 43225>>,
          <<43264, 43273>>, <<43472, 43481>>, <<43504, 43513>>,
          <<43600, 43609>>, <<44016, 44025>>, <<65296, 65305>>,
          <<66720, 66729>>, <<68912, 68921>>, <<69734, 69743>>,
          <<69872, 69881>>, <<69942, 69951>>, <<70096, 70105>>,
          <<70384, 70393>>, <<70736, 70745>>, <<70864, 70873>>,
          <<71248, 71257>>, <<71360, 71369>>, <<71472, 71481>>,
          <<71904, 71913>>, <<72016, 72025>>, <<72784, 72793>>,
          <<73040, 73049>>, <<73120, 73129>>, <<92768, 92777>>,
          <<92864, 92873>>, <<93008, 93017>>, <<120782, 120831>>,
          <<123200, 123209>>, <<123632, 123641>>, <<125264, 125273>>,
          <<130032, 130041>>
        >>
    ]

\* the bidi properties:
\*   class     <<lo, hi, unicodedata.bidirectional>>; no class when unassigned
\*   mirrored  unicodedata.mirrored
\*   pairs     <<c, c, mirror image of c>>
UnicodeBidi ==
    [
      class |->
        <<
          <<0, 8, "BN">>, <<9, 9, "S">>, <<10, 10, "B">>, <<11, 11, "S">>,
          <<12, 12, "WS">>, <<13, 13, "B">>, <<14, 27, "BN">>,
          <<28, 30, "B">>, <<31, 31, "S">>, <<32, 32, "WS">>,
          <<33, 34, "ON">>, <<35, 37, "ET">>, <<38, 42, "ON">>,
          <<43, 43, "ES">>, <<44, 44, "CS">>, <<45, 45, "ES">>,
          <<46, 47, "CS">>, <<48, 57, "EN">>, <<58, 58, "CS">>,
          <<59, 64, "ON">>, <<65, 90, "L">>, <<91, 96, "ON">>,
          <<97, 122, "L">>, <<123, 126, "ON">>, <<127, 132, "BN">>,
          <<133, 133, "B">>, <<134, 159, "BN">>, <<160, 160, "CS">>,
          <<161, 161, "ON">>, <<162, 165, "ET">>, <<166, 169, "ON">>,
          <<170, 170, "L">>, <<171, 172, "ON">>, <<173, 173, "BN">>,
          <<174, 175, "ON">>, <<176, 177, "ET">>, <<178, 179, "EN">>,
          <<180, 180, "ON">>, <<181, 181, "L">>, <<182, 184, "ON">>,
          <<185, 185, "EN">>, <<186, 186, "L">>, <<187, 191, "ON">>,
          <<192, 214, "L">>, <<215, 215, "ON">>, <<216, 246, "L">>,
          <<247, 247, "ON">>, <<248, 696, "L">>, <<697, 698, "ON">>,
          <<699, 705, "L">>, <<706, 719, "ON">>, <<720, 721, "L">>,
          <<722, 735, "ON">>, <<736, 740, "L">>, <<741, 749, "ON">>,
          <<750, 750, "L">>, <<751, 767, "ON">>, <<768, 879, "NSM">>,
          <<880, 883, "L">>, <<884, 885, "ON">>, <<886, 887, "L">>,
          <<890, 893, "L">>, <<894, 894, "ON">>, <<895, 895, "L">>,
          <<900, 901, "ON">>, <<902, 902, "L">>, <<903, 903, "ON">>,
          <<904, 906, "L">>, <<908, 908, "L">>, <<910, 929, "L">>,
          <<931, 1013, "L">>, <<1014, 1014, "ON">>, <<1015, 1154, "L">>,
          <<1155, 1161, "NSM">>, <<1162, 1327, "L">>, <<1329, 1366, "L">>,
          <<1369, 1417, "L">>, <<1418, 1418, "ON">>, <<1421, 1422, "ON">>,
          <<1423, 1423, "ET">>, <<1425, 1469, "NSM">>, <<1470, 1470, "R">>,
          <<1471, 1471, "NSM">>, <<1472, 1472, "R">>, <<1473, 1474, "NSM">>,
          <<1475, 1475, "R">>, <<1476, 1477, "NSM">>, <<1478, 1478, "R">>,
          <<1479, 1479, "NSM">>, <<1488, 1514, "R">>, <<1519, 1524, "R">>,
          <<1536, 1541, "AN">>, <<1542, 1543, "ON">>, <<1544, 1544, "AL">>,
          <<1545, 1546, "ET">>, <<1547, 1547, "AL">>, <<1548, 1548, "CS">>,
          <<1549, 1549, "AL">>, <<1550, 1551, "ON">>, <<1552, 1562, "NSM">>,
          <<1563, 1610, "AL">>, <<1611, 1631, "NSM">>, <<1632, 1641, "AN">>,
          <<1642, 1642, "ET">>, <<1643, 1644, "AN">>, <<1645, 1647, "AL">>,
          <<1648, 1648, "NSM">>, <<1649, 1749, "AL">>, <<1750, 1756, "NSM">>,
          <<1757, 1757, "AN">>, <<1758, 1758, "ON">>, <<1759, 1764, "NSM">>,
          <<1765, 1766, "AL">>, <<1767, 1768, "NSM">>, <<1769, 1769, "ON">>,
          <<1770, 1773, "NSM">>, <<1774, 1775, "AL">>, <<1776, 1785, "EN">>,
          <<1786, 1805, "AL">>, <<1807, 1808, "AL">>, <<1809, 1809, "NSM">>,
          <<1810, 1839, "AL">>, <<1840, 1866, "NSM">>, <<1869, 1957, "AL">>,
          <<1958, 1968, "NSM">>, <<1969, 1969, "AL">>, <<1984, 2026, "R">>,
          <<2027, 2035, "NSM">>, <<2036, 2037, "R">>, <<2038, 2041, "ON">>,
          <<2042, 2042, "R">>, <<2045, 2045, "NSM">>, <<2046, 2069, "R">>,
          <<2070, 2073, "NSM">>, <<2074, 2074, "R">>, <<2075, 2083, "NSM">>,
          <<2084, 2084, "R">>, <<2085, 2087, "NSM">>, <<2088, 2088, "R">>,
          <<2089, 2093, "NSM">>, <<2096, 2110, "R">>, <<2112, 2136, "R">>,
          <<2137, 2139, "NSM">>, <<2142, 2142, "R">>, <<2144, 2154, "AL">>,
          <<2160, 2190, "AL">>, <<2192, 2193, "AN">>, <<2200, 2207, "NSM">>,
          <<2208, 2249, "AL">>, <<2250, 2273, "NSM">>, <<2274, 2274, "AN">>,
          <<2275, 2306, "NSM">>, <<2307, 2361, "L">>, <<2362, 2362, "NSM">>,
          <<2363, 2363, "L">>, <<2364, 2364, "NSM">>, <<2365, 2368, "L">>,
          <<2369, 2376, "NSM">>, <<2377, 2380, "L">>, <<2381, 2381, "NSM">>,
          <<2382, 2384, "L">>, <<2385, 2391, "NSM">>, <<2392, 2401, "L">>,
          <<2402, 2403, "NSM">>, <<2404, 2432, "L">>, <<2433, 2433, "NSM">>,
          <<2434, 2435, "L">>, <<2437, 2444, "L">>, <<2447, 2448, "L">>,
          <<2451, 2472, "L">>, <<2474, 2480, "L">>, <<2482, 2482, "L">>,
          <<2486, 2489, "L">>, <<2492, 2492, "NSM">>, <<2493, 2496, "L">>,
          <<2497, 2500, "NSM">>, <<2503, 2504, "L">>, <<2507, 2508, "L">>,
          <<2509, 2509, "NSM">>, <<2510, 2510, "L">>, <<2519, 2519, "L">>,
          <<2524, 2525, "L">>, <<2527, 2529, "L">>, <<2530, 2531, "NSM">>,
          <<2534, 2545, "L">>, <<2546, 2547, "ET">>, <<2548, 2554, "L">>,
          <<2555, 2555, "ET">>, <<2556, 2557, "L">>, <<2558, 2558, "NSM">>,
          <<2561, 2562, "NSM">>, <<2563, 2563, "L">>, <<2565, 2570, "L">>,
          <<2575, 2576, "L">>, <<2579, 2600, "L">>, <<2602, 2608, "L">>,
          <<2610, 2611, "L">>, <<2613, 2614, "L">>, <<2616, 2617, "L">>,
          <<2620, 2620, "NSM">>, <<2622, 2624, "L">>, <<2625, 2626, "NSM">>,
          <<2631, 2632, "NSM">>, <<2635, 2637, "NSM">>,
          <<2641, 2641, "NSM">>, <<2649, 2652, "L">>, <<2654, 2654, "L">>,
          <<2662, 2671, "L">>, <<2672, 2673, "NSM">>, <<2674, 2676, "L">>,
          <<2677, 2677, "NSM">>, <<2678, 2678, "L">>, <<2689, 2690, "NSM">>,
          <<2691, 2691, "L">>, <<2693, 2701, "L">>, <<2703, 2705, "L">>,
          <<2707, 2728, "L">>, <<2730, 2736, "L">>, <<2738, 2739, "L">>,
          <<2741, 2745, "L">>, <<2748, 2748, "NSM">>, <<2749, 2752, "L">>,
          <<2753, 2757, "NSM">>, <<2759, 2760, "NSM">>, <<2761, 2761, "L">>,
          <<2763, 2764, "L">>, <<2765, 2765, "NSM">>, <<2768, 2768, "L">>,
          <<2784, 2785, "L">>, <<2786, 2787, "NSM">>, <<2790, 2800, "L">>,
          <<2801, 2801, "ET">>, <<2809, 2809, "L">>, <<2810, 2815, "NSM">>,
          <<2817, 2817, "NSM">>, <<2818, 2819, "L">>, <<2821, 2828, "L">>,
          <<2831, 2832, "L">>, <<2835, 2856, "L">>, <<2858, 2864, "L">>,
          <<2866, 2867, "L">>, <<2869, 2873, "L">>, <<2876, 2876, "NSM">>,
          <<2877, 2878, "L">>, <<2879, 2879, "NSM">>, <<2880, 2880, "L">>,
          <<2881, 2884, "NSM">>, <<2887, 2888, "L">>, <<2891, 2892, "L">>,
          <<2893, 2893, "NSM">>, <<2901, 2902, "NSM">>, <<2903, 2903, "L">>,
          <<2908, 2909, "L">>, <<2911, 2913, "L">>, <<2914, 2915, "NSM">>,
          <<2918, 2935, "L">>, <<2946, 2946, "NSM">>, <<2947, 2947, "L">>,
          <<2949, 2954, "L">>, <<2958, 2960, "L">>, <<2962, 2965, "L">>,
          <<2969, 2970, "L">>, <<2972, 2972, "L">>, <<2974, 2975, "L">>,
          <<2979, 2980, "L">>, <<2984, 2986, "L">>, <<2990, 3001, "L">>,
          <<3006, 3007, "L">>, <<3008, 3008, "NSM">>, <<3009, 3010, "L">>,
          <<3014, 3016, "L">>, <<3018, 3020, "L">>, <<3021, 3021, "NSM">>,
          <<3024, 3024, "L">>, <<3031, 3031, "L">>, <<3046, 3058, "L">>,
          <<3059, 3064, "ON">>, <<3065, 3065, "ET">>, <<3066, 3066, "ON">>,
          <<3072, 3072, "NSM">>, <<3073, 3075, "L">>, <<3076, 3076, "NSM">>,
          <<3077, 3084, "L">>, <<3086, 3088, "L">>, <<3090, 3112, "L">>,
          <<3114, 3129, "L">>, <<3132, 3132, "NSM">>, <<3133, 3133, "L">>,
          <<3134, 3136, "NSM">>, <<3137, 3140, "L">>, <<3142, 3144, "NSM">>,
          <<3146, 3149, "NSM">>, <<3157, 3158, "NSM">>, <<3160, 3162, "L">>,
          <<3165, 3165, "L">>, <<3168, 3169, "L">>, <<3170, 3171, "NSM">>,
          <<3174, 3183, "L">>, <<3191, 3191, "L">>, <<3192, 3198, "ON">>,
          <<3199, 3200, "L">>, <<3201, 3201, "NSM">>, <<3202, 3212, "L">>,
          <<3214, 3216, "L">>, <<3218, 3240, "L">>, <<3242, 3251, "L">>,
          <<3253, 3257, "L">>, <<3260, 3260, "NSM">>, <<3261, 3268, "L">>,
          <<3270, 3272, "L">>, <<3274, 3275, "L">>, <<3276, 3277, "NSM">>,
          <<3285, 3286, "L">>, <<3293, 3294, "L">>, <<3296, 3297, "L">>,
          <<3298, 3299, "NSM">>, <<3302, 3311, "L">>, <<3313, 3314, "L">>,
          <<3328, 3329, "NSM">>, <<3330, 3340, "L">>, <<3342, 3344, "L">>,
          <<3346, 3386, "L">>, <<3387, 3388, "NSM">>, <<3389, 3392, "L">>,
          <<3393, 3396, "NSM">>, <<3398, 3400, "L">>, <<3402, 3404, "L">>,
          <<3405, 3405, "NSM">>, <<3406, 3407, "L">>, <<3412, 3425, "L">>,
          <<3426, 3427, "NSM">>, <<3430, 3455, "L">>, <<3457, 3457, "NSM">>,
          <<3458, 3459, "L">>, <<3461, 3478, "L">>, <<3482, 3505, "L">>,
          <<3507, 3515, "L">>, <<3517, 3517, "L">>, <<3520, 3526, "L">>,
          <<3530, 3530, "NSM">>, <<3535, 3537, "L">>, <<3538, 3540, "NSM">>,
          <<3542, 3542, "NSM">>, <<3544, 3551, "L">>, <<3558, 3567, "L">>,
          <<3570, 3572, "L">>, <<3585, 3632, "L">>, <<3633, 3633, "NSM">>,
          <<3634, 3635, "L">>, <<3636, 3642, "NSM">>, <<3647, 3647, "ET">>,
          <<3648, 3654, "L">>, <<3655, 3662, "NSM">>, <<3663, 3675, "L">>,
          <<3713, 3714, "L">>, <<3716, 3716, "L">>, <<3718, 3722, "L">>,
          <<3724, 3747, "L">>, <<3749, 3749, "L">>, <<3751, 3760, "L">>,
          <<3761, 3761, "NSM">>, <<3762, 3763, "L">>, <<3764, 3772, "NSM">>,
          <<3773, 3773, "L">>, <<3776, 3780, "L">>, <<3782, 3782, "L">>,
          <<3784, 3789, "NSM">>, <<3792, 3801, "L">>, <<3804, 3807, "L">>,
          <<3840, 3863, "L">>, <<3864, 3865, "NSM">>, <<3866, 3892, "L">>,
          <<3893, 3893, "NSM">>, <<3894, 3894, "L">>, <<3895, 3895, "NSM">>,
          <<3896, 3896, "L">>, <<3897, 3897, "NSM">>, <<3898, 3901, "ON">>,
          <<3902, 3911, "L">>, <<3913, 3948, "L">>, <<3953, 3966, "NSM">>,
          <<3967, 3967, "L">>, <<3968, 3972, "NSM">>, <<3973, 3973, "L">>,
          <<3974, 3975, "NSM">>, <<3976, 3980, "L">>, <<3981, 3991, "NSM">>,
          <<3993, 4028, "NSM">>, <<4030, 4037, "L">>, <<4038, 4038, "NSM">>,
          <<4039, 4044, "L">>, <<4046, 4058, "L">>, <<4096, 4140, "L">>,
          <<4141, 4144, "NSM">>, <<4145, 4145, "L">>, <<4146, 4151, "NSM">>,
          <<4152, 4152, "L">>, <<4153, 4154, "NSM">>, <<4155, 4156, "L">>,
          <<4157, 4158, "NSM">>, <<4159, 4183, "L">>, <<4184, 4185, "NSM">>,
          <<4186, 4189, "L">>, <<4190, 4192, "NSM">>, <<4193, 4208, "L">>,
          <<4209, 4212, "NSM">>, <<4213, 4225, "L">>, <<4226, 4226, "NSM">>,
          <<4227, 4228, "L">>, <<4229, 4230, "NSM">>, <<4231, 4236, "L">>,
          <<4237, 4237, "NSM">>, <<4238, 4252, "L">>, <<4253, 4253, "NSM">>,
          <<4254, 4293, "L">>, <<4295, 4295, "L">>, <<4301, 4301, "L">>,
          <<4304, 4680, "L">>, <<4682, 4685, "L">>, <<4688, 4694, "L">>,
          <<4696, 4696, "L">>, <<4698, 4701, "L">>, <<4704, 4744, "L">>,
          <<4746, 4749, "L">>, <<4752, 4784, "L">>, <<4786, 4789, "L">>,
          <<4792, 4798, "L">>, <<4800, 4800, "L">>, <<4802, 4805, "L">>,
          <<4808, 4822, "L">>, <<4824, 4880, "L">>, <<4882, 4885, "L">>,
          <<4888, 4954, "L">>, <<4957, 4959, "NSM">>, <<4960, 4988, "L">>,
          <<4992, 5007, "L">>, <<5008, 5017, "ON">>, <<5024, 5109, "L">>,
          <<5112, 5117, "L">>, <<5120, 5120, "ON">>, <<5121, 5759, "L">>,
          <<5760, 5760, "WS">>, <<5761, 5786, "L">>, <<5787, 5788, "ON">>,
          <<5792, 5880, "L">>, <<5888, 5905, "L">>, <<5906, 5908, "NSM">>,
          <<5909, 5909, "L">>, <<5919, 5937, "L">>, <<5938, 5939, "NSM">>,
          <<5940, 5942, "L">>, <<5952, 5969, "L">>, <<5970, 5971, "NSM">>,
          <<5984, 5996, "L">>, <<5998, 6000, "L">>, <<6002, 6003, "NSM">>,
          <<6016, 6067, "L">>, <<6068, 6069, "NSM">>, <<6070, 6070, "L">>,
          <<6071, 6077, "NSM">>, <<6078, 6085, "L">>, <<6086, 6086, "NSM">>,
          <<6087, 6088, "L">>, <<6089, 6099, "NSM">>, <<6100, 6106, "L">>,
          <<6107, 6107, "ET">>, <<6108, 6108, "L">>, <<6109, 6109, "NSM">>,
          <<6112, 6121, "L">>, <<6128, 6137, "ON">>, <<6144, 6154, "ON">>,
          <<6155, 6157, "NSM">>, <<6158, 6158, "BN">>, <<6159, 6159, "NSM">>,
          <<6160, 6169, "L">>, <<6176, 6264, "L">>, <<6272, 6276, "L">>,
          <<6277, 6278, "NSM">>, <<6279, 6312, "L">>, <<6313, 6313, "NSM">>,
          <<6314, 6314, "L">>, <<6320, 6389, "L">>, <<6400, 6430, "L">>,
          <<6432, 6434, "NSM">>, <<6435, 6438, "L">>, <<6439, 6440, "NSM">>,
          <<6441, 6443, "L">>, <<6448, 6449, "L">>, <<6450, 6450, "NSM">>,
          <<6451, 6456, "L">>, <<6457, 6459, "NSM">>, <<6464, 6464, "ON">>,
          <<6468, 6469, "ON">>, <<6470, 6509, "L">>, <<6512, 6516, "L">>,
          <<6528, 6571, "L">>, <<6576, 6601, "L">>, <<6608, 6618, "L">>,
          <<6622, 6655, "ON">>, <<6656, 6678, "L">>, <<6679, 6680, "NSM">>,
          <<6681, 6682, "L">>, <<6683, 6683, "NSM">>, <<6686, 6741, "L">>,
          <<6742, 6742, "NSM">>, <<6743, 6743, "L">>, <<6744, 6750, "NSM">>,
          <<6752, 6752, "NSM">>, <<6753, 6753, "L">>, <<6754, 6754, "NSM">>,
          <<6755, 6756, "L">>, <<6757, 6764, "NSM">>, <<6765, 6770, "L">>,
          <<6771, 6780, "NSM">>, <<6783, 6783, "NSM">>, <<6784, 6793, "L">>,
          <<6800, 6809, "L">>, <<6816, 6829, "L">>, <<6832, 6862, "NSM">>,
          <<6912, 6915, "NSM">>, <<6916, 6963, "L">>, <<6964, 6964, "NSM">>,
          <<6965, 6965, "L">>, <<6966, 6970, "NSM">>, <<6971, 6971, "L">>,
          <<6972, 6972, "NSM">>, <<6973, 6977, "L">>, <<6978, 6978, "NSM">>,
          <<6979, 6988, "L">>, <<6992, 7018, "L">>, <<7019, 7027, "NSM">>,
          <<7028, 7038, "L">>, <<7040, 7041, "NSM">>, <<7042, 7073, "L">>,
          <<7074, 7077, "NSM">>, <<7078, 7079, "L">>, <<7080, 7081, "NSM">>,
          <<7082, 7082, "L">>, <<7083, 7085, "NSM">>, <<7086, 7141, "L">>,
          <<7142, 7142, "NSM">>, <<7143, 7143, "L">>, <<7144, 7145, "NSM">>,
          <<7146, 7148, "L">>, <<7149, 7149, "NSM">>, <<7150, 7150, "L">>,
          <<7151, 7153, "NSM">>, <<7154, 7155, "L">>, <<7164, 7211, "L">>,
          <<7212, 7219, "NSM">>, <<7220, 7221, "L">>, <<7222, 7223, "NSM">>,
          <<7227, 7241, "L">>, <<7245, 7304, "L">>, <<7312, 7354, "L">>,
          <<7357, 7367, "L">>, <<7376, 7378, "NSM">>, <<7379, 7379, "L">>,
          <<7380, 7392, "NSM">>, <<7393, 7393, "L">>, <<7394, 7400, "NSM">>,
          <<7401, 7404, "L">>, <<7405, 7405, "NSM">>, <<7406, 7411, "L">>,
          <<7412, 7412, "NSM">>, <<7413, 7415, "L">>, <<7416, 7417, "NSM">>,
          <<7418, 7418, "L">>, <<7424, 7615, "L">>, <<7616, 7679, "NSM">>,
          <<7680, 7957, "L">>, <<7960, 7965, "L">>, <<7968, 8005, "L">>,
          <<8008, 8013, "L">>, <<8016, 8023, "L">>, <<8025, 8025, "L">>,
          <<8027, 8027, "L">>, <<8029, 8029, "L">>, <<8031, 8061, "L">>,
          <<8064, 8116, "L">>, <<8118, 8124, "L">>, <<8125, 8125, "ON">>,
          <<8126, 8126, "L">>, <<8127, 8129, "ON">>, <<8130, 8132, "L">>,
          <<8134, 8140, "L">>, <<8141, 8143, "ON">>, <<8144, 8147, "L">>,
          <<8150, 8155, "L">>, <<8157, 8159, "ON">>, <<8160, 8172, "L">>,
          <<8173, 8175, "ON">>, <<8178, 8180, "L">>, <<8182, 8188, "L">>,
          <<8189, 8190, "ON">>, <<8192, 8202, "WS">>, <<8203, 8205, "BN">>,
          <<8206, 8206, "L">>, <<8207, 8207, "R">>, <<8208, 8231, "ON">>,
          <<8232, 8232, "WS">>, <<8233, 8233, "B">>, <<8234, 8234, "LRE">>,
          <<8235, 8235, "RLE">>, <<8236, 8236, "PDF">>,
          <<8237, 8237, "LRO">>, <<8238, 8238, "RLO">>, <<8239, 8239, "CS">>,
          <<8240, 8244, "ET">>, <<8245, 8259, "ON">>, <<8260, 8260, "CS">>,
          <<8261, 8286, "ON">>, <<8287, 8287, "WS">>, <<8288, 8292, "BN">>,
          <<8294, 8294, "LRI">>, <<8295, 8295, "RLI">>,
          <<8296, 8296, "FSI">>, <<8297, 8297, "PDI">>, <<8298, 8303, "BN">>,
          <<8304, 8304, "EN">>, <<8305, 8305, "L">>, <<8308, 8313, "EN">>,
          <<8314, 8315, "ES">>, <<8316, 8318, "ON">>, <<8319, 8319, "L">>,
          <<8320, 8329, "EN">>, <<8330, 8331, "ES">>, <<8332, 8334, "ON">>,
          <<8336, 8348, "L">>, <<8352, 8384, "ET">>, <<8400, 8432, "NSM">>,
          <<8448, 8449, "ON">>, <<8450, 8450, "L">>, <<8451, 8454, "ON">>,
          <<8455, 8455, "L">>, <<8456, 8457, "ON">>, <<8458, 8467, "L">>,
          <<8468, 8468, "ON">>, <<8469, 8469, "L">>, <<8470, 8472, "ON">>,
          <<8473, 8477, "L">>, <<8478, 8483, "ON">>, <<8484, 8484, "L">>,
          <<8485, 8485, "ON">>, <<8486, 8486, "L">>, <<8487, 8487, "ON">>,
          <<8488, 8488, "L">>, <<8489, 8489, "ON">>, <<8490, 8493, "L">>,
          <<8494, 8494, "ET">>, <<8495, 8505, "L">>, <<8506, 8507, "ON">>,
          <<8508, 8511, "L">>, <<8512, 8516, "ON">>, <<8517, 8521, "L">>,
          <<8522, 8525, "ON">>, <<8526, 8527, "L">>, <<8528, 8543, "ON">>,
          <<8544, 8584, "L">>, <<8585, 8587, "ON">>, <<8592, 8721, "ON">>,
          <<8722, 8722, "ES">>, <<8723, 8723, "ET">>, <<8724, 9013, "ON">>,
          <<9014, 9082, "L">>, <<9083, 9108, "ON">>, <<9109, 9109, "L">>,
          <<9110, 9254, "ON">>, <<9280, 9290, "ON">>, <<9312, 9351, "ON">>,
          <<9352, 9371, "EN">>, <<9372, 9449, "L">>, <<9450, 9899, "ON">>,
          <<9900, 9900, "L">>, <<9901, 10239, "ON">>, <<10240, 10495, "L">>,
          <<10496, 11123, "ON">>, <<11126, 11157, "ON">>,
          <<11159, 11263, "ON">>, <<11264, 11492, "L">>,
          <<11493, 11498, "ON">>, <<11499, 11502, "L">>,
          <<11503, 11505, "NSM">>, <<11506, 11507, "L">>,
          <<11513, 11519, "ON">>, <<11520, 11557, "L">>,
          <<11559, 11559, "L">>, <<11565, 11565, "L">>,
          <<11568, 11623, "L">>, <<11631, 11632, "L">>,
          <<11647, 11647, "NSM">>, <<11648, 11670, "L">>,
          <<11680, 11686, "L">>, <<11688, 11694, "L">>,
          <<11696, 11702, "L">>, <<11704, 11710, "L">>,
          <<11712, 11718, "L">>, <<11720, 11726, "L">>,
          <<11728, 11734, "L">>, <<11736, 11742, "L">>,
          <<11744, 11775, "NSM">>, <<11776, 11869, "ON">>,
          <<11904, 11929, "ON">>, <<11931, 12019, "ON">>,
          <<12032, 12245, "ON">>, <<12272, 12283, "ON">>,
          <<12288, 12288, "WS">>, <<12289, 12292, "ON">>,
          <<12293, 12295, "L">>, <<12296, 12320, "ON">>,
          <<12321, 12329, "L">>, <<12330, 12333, "NSM">>,
          <<12334, 12335, "L">>, <<12336, 12336, "ON">>,
          <<12337, 12341, "L">>, <<12342, 12343, "ON">>,
          <<12344, 12348, "L">>, <<12349, 12351, "ON">>,
          <<12353, 12438, "L">>, <<12441, 12442, "NSM">>,
          <<12443, 12444, "ON">>, <<12445, 12447, "L">>,
          <<12448, 12448, "ON">>, <<12449, 12538, "L">>,
          <<12539, 12539, "ON">>, <<12540, 12543, "L">>,
          <<12549, 12591, "L">>, <<12593, 12686, "L">>,
          <<12688, 12735, "L">>, <<12736, 12771, "ON">>,
          <<12784, 12828, "L">>, <<12829, 12830, "ON">>,
          <<12832, 12879, "L">>, <<12880, 12895, "ON">>,
          <<12896, 12923, "L">>, <<12924, 12926, "ON">>,
          <<12927, 12976, "L">>, <<12977, 12991, "ON">>,
          <<12992, 13003, "L">>, <<13004, 13007, "ON">>,
          <<13008, 13174, "L">>, <<13175, 13178, "ON">>,
          <<13179, 13277, "L">>, <<13278, 13279, "ON">>,
          <<13280, 13310, "L">>, <<13311, 13311, "ON">>,
          <<13312, 19903, "L">>, <<19904, 19967, "ON">>,
          <<19968, 42124, "L">>, <<42128, 42182, "ON">>,
          <<42192, 42508, "L">>, <<42509, 42511, "ON">>,
          <<42512, 42539, "L">>, <<42560, 42606, "L">>,
          <<42607, 42610, "NSM">>, <<42611, 42611, "ON">>,
          <<42612, 42621, "NSM">>, <<42622, 42623, "ON">>,
          <<42624, 42653, "L">>, <<42654, 42655, "NSM">>,
          <<42656, 42735, "L">>, <<42736, 42737, "NSM">>,
          <<42738, 42743, "L">>, <<42752, 42785, "ON">>,
          <<42786, 42887, "L">>, <<42888, 42888, "ON">>,
          <<42889, 42954, "L">>, <<42960, 42961, "L">>,
          <<42963, 42963, "L">>, <<42965, 42969, "L">>,
          <<42994, 43009, "L">>, <<43010, 43010, "NSM">>,
          <<43011, 43013, "L">>, <<43014, 43014, "NSM">>,
          <<43015, 43018, "L">>, <<43019, 43019, "NSM">>,
          <<43020, 43044, "L">>, <<43045, 43046, "NSM">>,
          <<43047, 43047, "L">>, <<43048, 43051, "ON">>,
          <<43052, 43052, "NSM">>, <<43056, 43063, "L">>,
          <<43064, 43065, "ET">>, <<43072, 43123, "L">>,
          <<43124, 43127, "ON">>, <<43136, 43203, "L">>,
          <<43204, 43205, "NSM">>, <<43214, 43225, "L">>,
          <<43232, 43249, "NSM">>, <<43250, 43262, "L">>,
          <<43263, 43263, "NSM">>, <<43264, 43301, "L">>,
          <<43302, 43309, "NSM">>, <<43310, 43334, "L">>,
          <<43335, 43345, "NSM">>, <<43346, 43347, "L">>,
          <<43359, 43388, "L">>, <<43392, 43394, "NSM">>,
          <<43395, 43442, "L">>, <<43443, 43443, "NSM">>,
          <<43444, 43445, "L">>, <<43446, 43449, "NSM">>,
          <<43450, 43451, "L">>, <<43452, 43453, "NSM">>,
          <<43454, 43469, "L">>, <<43471, 43481, "L">>,
          <<43486, 43492, "L">>, <<43493, 43493, "NSM">>,
          <<43494, 43518, "L">>, <<43520, 43560, "L">>,
          <<43561, 43566, "NSM">>, <<43567, 43568, "L">>,
          <<43569, 43570, "NSM">>, <<43571, 43572, "L">>,
          <<43573, 43574, "NSM">>, <<43584, 43586, "L">>,
          <<43587, 43587, "NSM">>, <<43588, 43595, "L">>,
          <<43596, 43596, "NSM">>, <<43597, 43597, "L">>,
          <<43600, 43609, "L">>, <<43612, 43643, "L">>,
          <<43644, 43644, "NSM">>, <<43645, 43695, "L">>,
          <<43696, 43696, "NSM">>, <<43697, 43697, "L">>,
          <<43698, 43700, "NSM">>, <<43701, 43702, "L">>,
          <<43703, 43704, "NSM">>, <<43705, 43709, "L">>,
          <<43710, 43711, "NSM">>, <<43712, 43712, "L">>,
          <<43713, 43713, "NSM">>, <<43714, 43714, "L">>,
          <<43739, 43755, "L">>, <<43756, 43757, "NSM">>,
          <<43758, 43765, "L">>, <<43766, 43766, "NSM">>,
          <<43777, 43782, "L">>, <<43785, 43790, "L">>,
          <<43793, 43798, "L">>, <<43808, 43814, "L">>,
          <<43816, 43822, "L">>, <<43824, 43881, "L">>,
          <<43882, 43883, "ON">>, <<43888, 44004, "L">>,
          <<44005, 44005, "NSM">>, <<44006, 44007, "L">>,
          <<44008, 44008, "NSM">>, <<44009, 44012, "L">>,
          <<44013, 44013, "NSM">>, <<44016, 44025, "L">>,
          <<44032, 55203, "L">>, <<55216, 55238, "L">>,
          <<55243, 55291, "L">>, <<55296, 64109, "L">>,
          <<64112, 64217, "L">>, <<64256, 64262, "L">>,
          <<64275, 64279, "L">>, <<64285, 64285, "R">>,
          <<64286, 64286, "NSM">>, <<64287, 64296, "R">>,
          <<64297, 64297, "ES">>, <<64298, 64310, "R">>,
          <<64312, 64316, "R">>, <<64318, 64318, "R">>,
          <<64320, 64321, "R">>, <<64323, 64324, "R">>,
          <<64326, 64335, "R">>, <<64336, 64450, "AL">>,
          <<64467, 64829, "AL">>, <<64830, 64847, "ON">>,
          <<64848, 64911, "AL">>, <<64914, 64967, "AL">>,
          <<64975, 64975, "ON">>, <<65008, 65020, "AL">>,
          <<65021, 65023, "ON">>, <<65024, 65039, "NSM">>,
          <<65040, 65049, "ON">>, <<65056, 65071, "NSM">>,
          <<65072, 65103, "ON">>, <<65104, 65104, "CS">>,
          <<65105, 65105, "ON">>, <<65106, 65106, "CS">>,
          <<65108, 65108, "ON">>, <<65109, 65109, "CS">>,
          <<65110, 65118, "ON">>, <<65119, 65119, "ET">>,
          <<65120, 65121, "ON">>, <<65122, 65123, "ES">>,
          <<65124, 65126, "ON">>, <<65128, 65128, "ON">>,
          <<65129, 65130, "ET">>, <<65131, 65131, "ON">>,
          <<65136, 65140, "AL">>, <<65142, 65276, "AL">>,
          <<65279, 65279, "BN">>, <<65281, 65282, "ON">>,
          <<65283, 65285, "ET">>, <<65286, 65290, "ON">>,
          <<65291, 65291, "ES">>, <<65292, 65292, "CS">>,
          <<65293, 65293, "ES">>, <<65294, 65295, "CS">>,
          <<65296, 65305, "EN">>, <<65306, 65306, "CS">>,
          <<65307, 65312, "ON">>, <<65313, 65338, "L">>,
          <<65339, 65344, "ON">>, <<65345, 65370, "L">>,
          <<65371, 65381, "ON">>, <<65382, 65470, "L">>,
          <<65474, 65479, "L">>, <<65482, 65487, "L">>,
          <<65490, 65495, "L">>, <<65498, 65500, "L">>,
          <<65504, 65505, "ET">>, <<65506, 65508, "ON">>,
          <<65509, 65510, "ET">>, <<65512, 65518, "ON">>,
          <<65529, 65533, "ON">>, <<65536, 65547, "L">>,
          <<65549, 65574, "L">>, <<65576, 65594, "L">>,
          <<65596, 65597, "L">>, <<65599, 65613, "L">>,
          <<65616, 65629, "L">>, <<65664, 65786, "L">>,
          <<65792, 65792, "L">>, <<65793, 65793, "ON">>,
          <<65794, 65794, "L">>, <<65799, 65843, "L">>,
          <<65847, 65855, "L">>, <<65856, 65932, "ON">>,
          <<65933, 65934, "L">>, <<65936, 65948, "ON">>,
          <<65952, 65952, "ON">>, <<66000, 66044, "L">>,
          <<66045, 66045, "NSM">>, <<66176, 66204, "L">>,
          <<66208, 66256, "L">>, <<66272, 66272, "NSM">>,
          <<66273, 66299, "EN">>, <<66304, 66339, "L">>,
          <<66349, 66378, "L">>, <<66384, 66421, "L">>,
          <<66422, 66426, "NSM">>, <<66432, 66461, "L">>,
          <<66463, 66499, "L">>, <<66504, 66517, "L">>,
          <<66560, 66717, "L">>, <<66720, 66729, "L">>,
          <<66736, 66771, "L">>, <<66776, 66811, "L">>,
          <<66816, 66855, "L">>, <<66864, 66915, "L">>,
          <<66927, 66938, "L">>, <<66940, 66954, "L">>,
          <<66956, 66962, "L">>, <<66964, 66965, "L">>,
          <<66967, 66977, "L">>, <<66979, 66993, "L">>,
          <<66995, 67001, "L">>, <<67003, 67004, "L">>,
          <<67072, 67382, "L">>, <<67392, 67413, "L">>,
          <<67424, 67431, "L">>, <<67456, 67461, "L">>,
          <<67463, 67504, "L">>, <<67506, 67514, "L">>,
          <<67584, 67589, "R">>, <<67592, 67592, "R">>,
          <<67594, 67637, "R">>, <<67639, 67640, "R">>,
          <<67644, 67644, "R">>, <<67647, 67669, "R">>,
          <<67671, 67742, "R">>, <<67751, 67759, "R">>,
          <<67808, 67826, "R">>, <<67828, 67829, "R">>,
          <<67835, 67867, "R">>, <<67871, 67871, "ON">>,
          <<67872, 67897, "R">>, <<67903, 67903, "R">>,
          <<67968, 68023, "R">>, <<68028, 68047, "R">>,
          <<68050, 68096, "R">>, <<68097, 68099, "NSM">>,
          <<68101, 68102, "NSM">>, <<68108, 68111, "NSM">>,
          <<68112, 68115, "R">>, <<68117, 68119, "R">>,
          <<68121, 68149, "R">>, <<68152, 68154, "NSM">>,
          <<68159, 68159, "NSM">>, <<68160, 68168, "R">>,
          <<68176, 68184, "R">>, <<68192, 68255, "R">>,
          <<68288, 68324, "R">>, <<68325, 68326, "NSM">>,
          <<68331, 68342, "R">>, <<68352, 68405, "R">>,
          <<68409, 68415, "ON">>, <<68416, 68437, "R">>,
          <<68440, 68466, "R">>, <<68472, 68497, "R">>,
          <<68505, 68508, "R">>, <<68521, 68527, "R">>,
          <<68608, 68680, "R">>, <<68736, 68786, "R">>,
          <<68800, 68850, "R">>, <<68858, 68863, "R">>,
          <<68864, 68899, "AL">>, <<68900, 68903, "NSM">>,
          <<68912, 68921, "AN">>, <<69216, 69246, "AN">>,
          <<69248, 69289, "R">>, <<69291, 69292, "NSM">>,
          <<69293, 69293, "R">>, <<69296, 69297, "R">>,
          <<69376, 69415, "R">>, <<69424, 69445, "AL">>,
          <<69446, 69456, "NSM">>, <<69457, 69465, "AL">>,
          <<69488, 69505, "R">>, <<69506, 69509, "NSM">>,
          <<69510, 69513, "R">>, <<69552, 69579, "R">>,
          <<69600, 69622, "R">>, <<69632, 69632, "L">>,
          <<69633, 69633, "NSM">>, <<69634, 69687, "L">>,
          <<69688, 69702, "NSM">>, <<69703, 69709, "L">>,
          <<69714, 69733, "ON">>, <<69734, 69743, "L">>,
          <<69744, 69744, "NSM">>, <<69745, 69746, "L">>,
          <<69747, 69748, "NSM">>, <<69749, 69749, "L">>,
          <<69759, 69761, "NSM">>, <<69762, 69810, "L">>,
          <<69811, 69814, "NSM">>, <<69815, 69816, "L">>,
          <<69817, 69818, "NSM">>, <<69819, 69825, "L">>,
          <<69826, 69826, "NSM">>, <<69837, 69837, "L">>,
          <<69840, 69864, "L">>, <<69872, 69881, "L">>,
          <<69888, 69890, "NSM">>, <<69891, 69926, "L">>,
          <<69927, 69931, "NSM">>, <<69932, 69932, "L">>,
          <<69933, 69940, "NSM">>, <<69942, 69959, "L">>,
          <<69968, 70002, "L">>, <<70003, 70003, "NSM">>,
          <<70004, 70006, "L">>, <<70016, 70017, "NSM">>,
          <<70018, 70069, "L">>, <<70070, 70078, "NSM">>,
          <<70079, 70088, "L">>, <<70089, 70092, "NSM">>,
          <<70093, 70094, "L">>, <<70095, 70095, "NSM">>,
          <<70096, 70111, "L">>, <<70113, 70132, "L">>,
          <<70144, 70161, "L">>, <<70163, 70190, "L">>,
          <<70191, 70193, "NSM">>, <<70194, 70195, "L">>,
          <<70196, 70196, "NSM">>, <<70197, 70197, "L">>,
          <<70198, 70199, "NSM">>, <<70200, 70205, "L">>,
          <<70206, 70206, "NSM">>, <<70272, 70278, "L">>,
          <<70280, 70280, "L">>, <<70282, 70285, "L">>,
          <<70287, 70301, "L">>, <<70303, 70313, "L">>,
          <<70320, 70366, "L">>, <<70367, 70367, "NSM">>,
          <<70368, 70370, "L">>, <<70371, 70378, "NSM">>,
          <<70384, 70393, "L">>, <<70400, 70401, "NSM">>,
          <<70402, 70403, "L">>, <<70405, 70412, "L">>,
          <<70415, 70416, "L">>, <<70419, 70440, "L">>,
          <<70442, 70448, "L">>, <<70450, 70451, "L">>,
          <<70453, 70457, "L">>, <<70459, 70460, "NSM">>,
          <<70461, 70463, "L">>, <<70464, 70464, "NSM">>,
          <<70465, 70468, "L">>, <<70471, 70472, "L">>,
          <<70475, 70477, "L">>, <<70480, 70480, "L">>,
          <<70487, 70487, "L">>, <<70493, 70499, "L">>,
          <<70502, 70508, "NSM">>, <<70512, 70516, "NSM">>,
          <<70656, 70711, "L">>, <<70712, 70719, "NSM">>,
          <<70720, 70721, "L">>, <<70722, 70724, "NSM">>,
          <<70725, 70725, "L">>, <<70726, 70726, "NSM">>,
          <<70727, 70747, "L">>, <<70749, 70749, "L">>,
          <<70750, 70750, "NSM">>, <<70751, 70753, "L">>,
          <<70784, 70834, "L">>, <<70835, 70840, "NSM">>,
          <<70841, 70841, "L">>, <<70842, 70842, "NSM">>,
          <<70843, 70846, "L">>, <<70847, 70848, "NSM">>,
          <<70849, 70849, "L">>, <<70850, 70851, "NSM">>,
          <<70852, 70855, "L">>, <<70864, 70873, "L">>,
          <<71040, 71089, "L">>, <<71090, 71093, "NSM">>,
          <<71096, 71099, "L">>, <<71100, 71101, "NSM">>,
          <<71102, 71102, "L">>, <<71103, 71104, "NSM">>,
          <<71105, 71131, "L">>, <<71132, 71133, "NSM">>,
          <<71168, 71218, "L">>, <<71219, 71226, "NSM">>,
          <<71227, 71228, "L">>, <<71229, 71229, "NSM">>,
          <<71230, 71230, "L">>, <<71231, 71232, "NSM">>,
          <<71233, 71236, "L">>, <<71248, 71257, "L">>,
          <<71264, 71276, "ON">>, <<71296, 71338, "L">>,
          <<71339, 71339, "NSM">>, <<71340, 71340, "L">>,
          <<71341, 71341, "NSM">>, <<71342, 71343, "L">>,
          <<71344, 71349, "NSM">>, <<71350, 71350, "L">>,
          <<71351, 71351, "NSM">>, <<71352, 71353, "L">>,
          <<71360, 71369, "L">>, <<71424, 71450, "L">>,
          <<71453, 71455, "NSM">>, <<71456, 71457, "L">>,
          <<71458, 71461, "NSM">>, <<71462, 71462, "L">>,
          <<71463, 71467, "NSM">>, <<71472, 71494, "L">>,
          <<71680, 71726, "L">>, <<71727, 71735, "NSM">>,
          <<71736, 71736, "L">>, <<71737, 71738, "NSM">>,
          <<71739, 71739, "L">>, <<71840, 71922, "L">>,
          <<71935, 71942, "L">>, <<71945, 71945, "L">>,
          <<71948, 71955, "L">>, <<71957, 71958, "L">>,
          <<71960, 71989, "L">>, <<71991, 71992, "L">>,
          <<71995, 71996, "NSM">>, <<71997, 71997, "L">>,
          <<71998, 71998, "NSM">>, <<71999, 72002, "L">>,
          <<72003, 72003, "NSM">>, <<72004, 72006, "L">>,
          <<72016, 72025, "L">>, <<72096, 72103, "L">>,
          <<72106, 72147, "L">>, <<72148, 72151, "NSM">>,
          <<72154, 72155, "NSM">>, <<72156, 72159, "L">>,
          <<72160, 72160, "NSM">>, <<72161, 72164, "L">>,
          <<72192, 72192, "L">>, <<72193, 72198, "NSM">>,
          <<72199, 72200, "L">>, <<72201, 72202, "NSM">>,
          <<72203, 72242, "L">>, <<72243, 72248, "NSM">>,
          <<72249, 72250, "L">>, <<72251, 72254, "NSM">>,
          <<72255, 72262, "L">>, <<72263, 72263, "NSM">>,
          <<72272, 72272, "L">>, <<72273, 72278, "NSM">>,
          <<72279, 72280, "L">>, <<72281, 72283, "NSM">>,
          <<72284, 72329, "L">>, <<72330, 72342, "NSM">>,
          <<72343, 72343, "L">>, <<72344, 72345, "NSM">>,
          <<72346, 72354, "L">>, <<72368, 72440, "L">>,
          <<72704, 72712, "L">>, <<72714, 72751, "L">>,
          <<72752, 72758, "NSM">>, <<72760, 72765, "NSM">>,
          <<72766, 72773, "L">>, <<72784, 72812, "L">>,
          <<72816, 72847, "L">>, <<72850, 72871, "NSM">>,
          <<72873, 72873, "L">>, <<72874, 72880, "NSM">>,
          <<72881, 72881, "L">>, <<72882, 72883, "NSM">>,
          <<72884, 72884, "L">>, <<72885, 72886, "NSM">>,
          <<72960, 72966, "L">>, <<72968, 72969, "L">>,
          <<72971, 73008, "L">>, <<73009, 73014, "NSM">>,
          <<73018, 73018, "NSM">>, <<73020, 73021, "NSM">>,
          <<73023, 73029, "NSM">>, <<73030, 73030, "L">>,
          <<73031, 73031, "NSM">>, <<73040, 73049, "L">>,
          <<73056, 73061, "L">>, <<73063, 73064, "L">>,
          <<73066, 73102, "L">>, <<73104, 73105, "NSM">>,
          <<73107, 73108, "L">>, <<73109, 73109, "NSM">>,
          <<73110, 73110, "L">>, <<73111, 73111, "NSM">>,
          <<73112, 73112, "L">>, <<73120, 73129, "L">>,
          <<73440, 73458, "L">>, <<73459, 73460, "NSM">>,
          <<73461, 73464, "L">>, <<73648, 73648, "L">>,
          <<73664, 73684, "L">>, <<73685, 73692, "ON">>,
          <<73693, 73696, "ET">>, <<73697, 73713, "ON">>,
          <<73727, 74649, "L">>, <<74752, 74862, "L">>,
          <<74864, 74868, "L">>, <<74880, 75075, "L">>,
          <<77712, 77810, "L">>, <<77824, 78894, "L">>,
          <<78896, 78904, "L">>, <<82944, 83526, "L">>,
          <<92160, 92728, "L">>, <<92736, 92766, "L">>,
          <<92768, 92777, "L">>, <<92782, 92862, "L">>,
          <<92864, 92873, "L">>, <<92880, 92909, "L">>,
          <<92912, 92916, "NSM">>, <<92917, 92917, "L">>,
          <<92928, 92975, "L">>, <<92976, 92982, "NSM">>,
          <<92983, 92997, "L">>, <<93008, 93017, "L">>,
          <<93019, 93025, "L">>, <<93027, 93047, "L">>,
          <<93053, 93071, "L">>, <<93760, 93850, "L">>,
          <<93952, 94026, "L">>, <<94031, 94031, "NSM">>,
          <<94032, 94087, "L">>, <<94095, 94098, "NSM">>,
          <<94099, 94111, "L">>, <<94176, 94177, "L">>,
          <<94178, 94178, "ON">>, <<94179, 94179, "L">>,
          <<94180, 94180, "NSM">>, <<94192, 94193, "L">>,
          <<94208, 100343, "L">>, <<100352, 101589, "L">>,
          <<101632, 101640, "L">>, <<110576, 110579, "L">>,
          <<110581, 110587, "L">>, <<110589, 110590, "L">>,
          <<110592, 110882, "L">>, <<110928, 110930, "L">>,
          <<110948, 110951, "L">>, <<110960, 111355, "L">>,
          <<113664, 113770, "L">>, <<113776, 113788, "L">>,
          <<113792, 113800, "L">>, <<113808, 113817, "L">>,
          <<113820, 113820, "L">>, <<113821, 113822, "NSM">>,
          <<113823, 113823, "L">>, <<113824, 113827, "BN">>,
          <<118528, 118573, "NSM">>, <<118576, 118598, "NSM">>,
          <<118608, 118723, "L">>, <<118784, 119029, "L">>,
          <<119040, 119078, "L">>, <<119081, 119142, "L">>,
          <<119143, 119145, "NSM">>, <<119146, 119154, "L">>,
          <<119155, 119162, "BN">>, <<119163, 119170, "NSM">>,
          <<119171, 119172, "L">>, <<119173, 119179, "NSM">>,
          <<119180, 119209, "L">>, <<119210, 119213, "NSM">>,
          <<119214, 119272, "L">>, <<119273, 119274, "ON">>,
          <<119296, 119361, "ON">>, <<119362, 119364, "NSM">>,
          <<119365, 119365, "ON">>, <<119520, 119539, "L">>,
          <<119552, 119638, "ON">>, <<119648, 119672, "L">>,
          <<119808, 119892, "L">>, <<119894, 119964, "L">>,
          <<119966, 119967, "L">>, <<119970, 119970, "L">>,
          <<119973, 119974, "L">>, <<119977, 119980, "L">>,
          <<119982, 119993, "L">>, <<119995, 119995, "L">>,
          <<119997, 120003, "L">>, <<120005, 120069, "L">>,
          <<120071, 120074, "L">>, <<120077, 120084, "L">>,
          <<120086, 120092, "L">>, <<120094, 120121, "L">>,
          <<120123, 120126, "L">>, <<120128, 120132, "L">>,
          <<120134, 120134, "L">>, <<120138, 120144, "L">>,
          <<120146, 120485, "L">>, <<120488, 120538, "L">>,
          <<120539, 120539, "ON">>, <<120540, 120596, "L">>,
          <<120597, 120597, "ON">>, <<120598, 120654, "L">>,
          <<120655, 120655, "ON">>, <<120656, 120712, "L">>,
          <<120713, 120713, "ON">>, <<120714, 120770, "L">>,
          <<120771, 120771, "ON">>, <<120772, 120779, "L">>,
          <<120782, 120831, "EN">>, <<120832, 121343, "L">>,
          <<121344, 121398, "NSM">>, <<121399, 121402, "L">>,
          <<121403, 121452, "NSM">>, <<121453, 121460, "L">>,
          <<121461, 121461, "NSM">>, <<121462, 121475, "L">>,
          <<121476, 121476, "NSM">>, <<121477, 121483, "L">>,
          <<121499, 121503, "NSM">>, <<121505, 121519, "NSM">>,
          <<122624, 122654, "L">>, <<122880, 122886, "NSM">>,
          <<122888, 122904, "NSM">>, <<122907, 122913, "NSM">>,
          <<122915, 122916, "NSM">>, <<122918, 122922, "NSM">>,
          <<123136, 123180, "L">>, <<123184, 123190, "NSM">>,
          <<123191, 123197, "L">>, <<123200, 123209, "L">>,
          <<123214, 123215, "L">>, <<123536, 123565, "L">>,
          <<123566, 123566, "NSM">>, <<123584, 123627, "L">>,
          <<123628, 123631, "NSM">>, <<123632, 123641, "L">>,
          <<123647, 123647, "ET">>, <<124896, 124902, "L">>,
          <<124904, 124907, "L">>, <<124909, 124910, "L">>,
          <<124912, 124926, "L">>, <<124928, 125124, "R">>,
          <<125127, 125135, "R">>, <<125136, 125142, "NSM">>,
          <<125184, 125251, "R">>, <<125252, 125258, "NSM">>,
          <<125259, 125259, "R">>, <<125264, 125273, "R">>,
          <<125278, 125279, "R">>, <<126065, 126132, "AL">>,
          <<126209, 126269, "AL">>, <<126464, 126467, "AL">>,
          <<126469, 126495, "AL">>, <<126497, 126498, "AL">>,
          <<126500, 126500, "AL">>, <<126503, 126503, "AL">>,
          <<126505, 126514, "AL">>, <<126516, 126519, "AL">>,
          <<126521, 126521, "AL">>, <<126523, 126523, "AL">>,
          <<126530, 126530, "AL">>, <<126535, 126535, "AL">>,
          <<126537, 126537, "AL">>, <<126539, 126539, "AL">>,
          <<126541, 126543, "AL">>, <<126545, 126546, "AL">>,
          <<126548, 126548, "AL">>, <<126551, 126551, "AL">>,
          <<126553, 126553, "AL">>, <<126555, 126555, "AL">>,
          <<126557, 126557, "AL">>, <<126559, 126559, "AL">>,
          <<126561, 126562, "AL">>, <<126564, 126564, "AL">>,
          <<126567, 126570, "AL">>, <<126572, 126578, "AL">>,
          <<126580, 126583, "AL">>, <<126585, 126588, "AL">>,
          <<126590, 126590, "AL">>, <<126592, 126601, "AL">>,
          <<126603, 126619, "AL">>, <<126625, 126627, "AL">>,
          <<126629, 126633, "AL">>, <<126635, 126651, "AL">>,
          <<126704, 126705, "ON">>, <<126976, 127019, "ON">>,
          <<127024, 127123, "ON">>, <<127136, 127150, "ON">>,
          <<127153, 127167, "ON">>, <<127169, 127183, "ON">>,
          <<127185, 127221, "ON">>, <<127232, 127242, "EN">>,
          <<127243, 127247, "ON">>, <<127248, 127278, "L">>,
          <<127279, 127279, "ON">>, <<127280, 127337, "L">>,
          <<127338, 127343, "ON">>, <<127344, 127404, "L">>,
          <<127405, 127405, "ON">>, <<127462, 127490, "L">>,
          <<127504, 127547, "L">>, <<127552, 127560, "L">>,
          <<127568, 127569, "L">>, <<127584, 127589, "ON">>,
          <<127744, 128727, "ON">>, <<128733, 128748, "ON">>,
          <<128752, 128764, "ON">>, <<128768, 128883, "ON">>,
          <<128896, 128984, "ON">>, <<128992, 129003, "ON">>,
          <<129008, 129008, "ON">>, <<129024, 129035, "ON">>,
          <<129040, 129095, "ON">>, <<129104, 129113, "ON">>,
          <<129120, 129159, "ON">>, <<129168, 129197, "ON">>,
          <<129200, 129201, "ON">>, <<129280, 129619, "ON">>,
          <<129632, 129645, "ON">>, <<129648, 129652, "ON">>,
          <<129656, 129660, "ON">>, <<129664, 129670, "ON">>,
          <<129680, 129708, "ON">>, <<129712, 129722, "ON">>,
          <<129728, 129733, "ON">>, <<129744, 129753, "ON">>,
          <<129760, 129767, "ON">>, <<129776, 129782, "ON">>,
          <<129792, 129938, "ON">>, <<129940, 129994, "ON">>,
          <<130032, 130041, "EN">>, <<131072, 173791, "L">>,
          <<173824, 177976, "L">>, <<177984, 178205, "L">>,
          <<178208, 183969, "L">>, <<183984, 191456, "L">>,
          <<194560, 195101, "L">>, <<196608, 201546, "L">>,
          <<917505, 917505, "BN">>, <<917536, 917631, "BN">>,
          <<917760, 917999, "NSM">>, <<983040, 1048573, "L">>,
          <<1048576, 1114109, "L">>
        >>,
      mirrored |->
        <<
          <<40, 41>>, <<60, 60>>, <<62, 62>>, <<91, 91>>, <<93, 93>>,
          <<123, 123>>, <<125, 125>>, <<171, 171>>, <<187, 187>>,
          <<3898, 3901>>, <<5787, 5788>>, <<8249, 8250>>, <<8261, 8262>>,
          <<8317, 8318>>, <<8333, 8334>>, <<8512, 8512>>, <<8705, 8708>>,
          <<8712, 8717>>, <<8721, 8721>>, <<8725, 8726>>, <<8730, 8733>>,
          <<8735, 8738>>, <<8740, 8740>>, <<8742, 8742>>, <<8747, 8755>>,
          <<8761, 8761>>, <<8763, 8780>>, <<8786, 8789>>, <<8799, 8800>>,
          <<8802, 8802>>, <<8804, 8811>>, <<8814, 8844>>, <<8847, 8850>>,
          <<8856, 8856>>, <<8866, 8867>>, <<8870, 8888>>, <<8894, 8895>>,
          <<8905, 8909>>, <<8912, 8913>>, <<8918, 8941>>, <<8944, 8959>>,
          <<8968, 8971>>, <<8992, 8993>>, <<9001, 9002>>, <<10088, 10101>>,
          <<10176, 10176>>, <<10179, 10182>>, <<10184, 10185>>,
          <<10187, 10189>>, <<10195, 10198>>, <<10204, 10206>>,
          <<10210, 10223>>, <<10627, 10648>>, <<10651, 10656>>,
          <<10658, 10671>>, <<10680, 10680>>, <<10688, 10693>>,
          <<10697, 10697>>, <<10702, 10706>>, <<10708, 10709>>,
          <<10712, 10716>>, <<10721, 10721>>, <<10723, 10725>>,
          <<10728, 10729>>, <<10740, 10745>>, <<10748, 10749>>,
          <<10762, 10780>>, <<10782, 10785>>, <<10788, 10788>>,
          <<10790, 10790>>, <<10793, 10793>>, <<10795, 10798>>,
          <<10804, 10805>>, <<10812, 10814>>, <<10839, 10840>>,
          <<10852, 10853>>, <<10858, 10861>>, <<10863, 10864>>,
          <<10867, 10868>>, <<10873, 10915>>, <<10918, 10925>>,
          <<10927, 10966>>, <<10972, 10972>>, <<10974, 10974>>,
          <<10978, 10982>>, <<10988, 10990>>, <<10995, 10995>>,
          <<10999, 11003>>, <<11005, 11005>>, <<11262, 11262>>,
          <<11778, 11781>>, <<11785, 11786>>, <<11788, 11789>>,
          <<11804, 11805>>, <<11808, 11817>>, <<11861, 11868>>,
          <<12296, 12305>>, <<12308, 12315>>, <<65113, 65118>>,
          <<65124, 65125>>, <<65288, 65289>>, <<65308, 65308>>,
          <<65310, 65310>>, <<65339, 65339>>, <<65341, 65341>>,
          <<65371, 65371>>, <<65373, 65373>>, <<65375, 65376>>,
          <<65378, 65379>>, <<120539, 120539>>, <<120597, 120597>>,
          <<120655, 120655>>, <<120713, 120713>>, <<120771, 120771>>
        >>,
      pairs |->
        <<
          <<40, 40, 41>>, <<41, 41, 40>>, <<60, 60, 62>>, <<62, 62, 60>>,
          <<91, 91, 93>>, <<93, 93, 91>>, <<123, 123, 125>>,
          <<125, 125, 123>>, <<171, 171, 187>>, <<187, 187, 171>>,
          <<3898, 3898, 3899>>, <<3899, 3899, 3898>>, <<3900, 3900, 3901>>,
          <<3901, 3901, 3900>>, <<8249, 8249, 8250>>, <<8250, 8250, 8249>>,
          <<8261, 8261, 8262>>, <<8262, 8262, 8261>>, <<8317, 8317, 8318>>,
          <<8318, 8318, 8317>>, <<8333, 8333, 8334>>, <<8334, 8334, 8333>>,
          <<8712, 8712, 8715>>, <<8713, 8713, 8716>>, <<8714, 8714, 8717>>,
          <<8715, 8715, 8712>>, <<8716, 8716, 8713>>, <<8717, 8717, 8714>>,
          <<8725, 8725, 10741>>, <<8764, 8764, 8765>>, <<8765, 8765, 8764>>,
          <<8771, 8771, 8909>>, <<8786, 8786, 8787>>, <<8787, 8787, 8786>>,
          <<8788, 8788, 8789>>, <<8789, 8789, 8788>>, <<8804, 8804, 8805>>,
          <<8805, 8805, 8804>>, <<8806, 8806, 8807>>, <<8807, 8807, 8806>>,
          <<8808, 8808, 8809>>, <<8809, 8809, 8808>>, <<8810, 8810, 8811>>,
          <<8811, 8811, 8810>>, <<8814, 8814, 8815>>, <<8815, 8815, 8814>>,
          <<8816, 8816, 8817>>, <<8817, 8817, 8816>>, <<8818, 8818, 8819>>,
          <<8819, 8819, 8818>>, <<8820, 8820, 8821>>, <<8821, 8821, 8820>>,
          <<8822, 8822, 8823>>, <<8823, 8823, 8822>>, <<8824, 8824, 8825>>,
          <<8825, 8825, 8824>>, <<8826, 8826, 8827>>, <<8827, 8827, 8826>>,
          <<8828, 8828, 8829>>, <<8829, 8829, 8828>>, <<8830, 8830, 8831>>,
          <<8831, 8831, 8830>>, <<8832, 8832, 8833>>, <<8833, 8833, 8832>>,
          <<8834, 8834, 8835>>, <<8835, 8835, 8834>>, <<8836, 8836, 8837>>,
          <<8837, 8837, 8836>>, <<8838, 8838, 8839>>, <<8839, 8839, 8838>>,
          <<8840, 8840, 8841>>, <<8841, 8841, 8840>>, <<8842, 8842, 8843>>,
          <<8843, 8843, 8842>>, <<8847, 8847, 8848>>, <<8848, 8848, 8847>>,
          <<8849, 8849, 8850>>, <<8850, 8850, 8849>>, <<8856, 8856, 10680>>,
          <<8866, 8866, 8867>>, <<8867, 8867, 8866>>, <<8870, 8870, 10974>>,
          <<8872, 8872, 10980>>, <<8873, 8873, 10979>>,
          <<8875, 8875, 10981>>, <<8880, 8880, 8881>>, <<8881, 8881, 8880>>,
          <<8882, 8882, 8883>>, <<8883, 8883, 8882>>, <<8884, 8884, 8885>>,
          <<8885, 8885, 8884>>, <<8886, 8886, 8887>>, <<8887, 8887, 8886>>,
          <<8905, 8905, 8906>>, <<8906, 8906, 8905>>, <<8907, 8907, 8908>>,
          <<8908, 8908, 8907>>, <<8909, 8909, 8771>>, <<8912, 8912, 8913>>,
          <<8913, 8913, 8912>>, <<8918, 8918, 8919>>, <<8919, 8919, 8918>>,
          <<8920, 8920, 8921>>, <<8921, 8921, 8920>>, <<8922, 8922, 8923>>,
          <<8923, 8923, 8922>>, <<8924, 8924, 8925>>, <<8925, 8925, 8924>>,
          <<8926, 8926, 8927>>, <<8927, 8927, 8926>>, <<8928, 8928, 8929>>,
          <<8929, 8929, 8928>>, <<8930, 8930, 8931>>, <<8931, 8931, 8930>>,
          <<8932, 8932, 8933>>, <<8933, 8933, 8932>>, <<8934, 8934, 8935>>,
          <<8935, 8935, 8934>>, <<8936, 8936, 8937>>, <<8937, 8937, 8936>>,
          <<8938, 8938, 8939>>, <<8939, 8939, 8938>>, <<8940, 8940, 8941>>,
          <<8941, 8941, 8940>>, <<8944, 8944, 8945>>, <<8945, 8945, 8944>>,
          <<8946, 8946, 8954>>, <<8947, 8947, 8955>>, <<8948, 8948, 8956>>,
          <<8950, 8950, 8957>>, <<8951, 8951, 8958>>, <<8954, 8954, 8946>>,
          <<8955, 8955, 8947>>, <<8956, 8956, 8948>>, <<8957, 8957, 8950>>,
          <<8958, 8958, 8951>>, <<8968, 8968, 8969>>, <<8969, 8969, 8968>>,
          <<8970, 8970, 8971>>, <<8971, 8971, 8970>>, <<9001, 9001, 9002>>,
          <<9002, 9002, 9001>>, <<10088, 10088, 10089>>,
          <<10089, 10089, 10088>>, <<10090, 10090, 10091>>,
          <<10091, 10091, 10090>>, <<10092, 10092, 10093>>,
          <<10093, 10093, 10092>>, <<10094, 10094, 10095>>,
          <<10095, 10095, 10094>>, <<10096, 10096, 10097>>,
          <<10097, 10097, 10096>>, <<10098, 10098, 10099>>,
          <<10099, 10099, 10098>>, <<10100, 10100, 10101>>,
          <<10101, 10101, 10100>>, <<10179, 10179, 10180>>,
          <<10180, 10180, 10179>>, <<10181, 10181, 10182>>,
          <<10182, 10182, 10181>>, <<10197, 10197, 10198>>,
          <<10198, 10198, 10197>>, <<10205, 10205, 10206>>,
          <<10206, 10206, 10205>>, <<10214, 10214, 10215>>,
          <<10215, 10215, 10214>>, <<10216, 10216, 10217>>,
          <<10217, 10217, 10216>>, <<10218, 10218, 10219>>,
          <<10219, 10219, 10218>>, <<10220, 10220, 10221>>,
          <<10221, 10221, 10220>>, <<10222, 10222, 10223>>,
          <<10223, 10223, 10222>>, <<10627, 10627, 10628>>,
          <<10628, 10628, 10627>>, <<10629, 10629, 10630>>,
          <<10630, 10630, 10629>>, <<10631, 10631, 10632>>,
          <<10632, 10632, 10631>>, <<10633, 10633, 10634>>,
          <<10634, 10634, 10633>>, <<10635, 10635, 10636>>,
          <<10636, 10636, 10635>>, <<10637, 10637, 10640>>,
          <<10638, 10638, 10639>>, <<10639, 10639, 10638>>,
          <<10640, 10640, 10637>>, <<10641, 10641, 10642>>,
          <<10642, 10642, 10641>>, <<10647, 10647, 10648>>,
          <<10648, 10648, 10647>>, <<10664, 10664, 10665>>,
          <<10665, 10665, 10664>>, <<10666, 10666, 10667>>,
          <<10667, 10667, 10666>>, <<10668, 10668, 10669>>,
          <<10669, 10669, 10668>>, <<10670, 10670, 10671>>,
          <<10671, 10671, 10670>>, <<10680, 10680, 8856>>,
          <<10688, 10688, 10689>>, <<10689, 10689, 10688>>,
          <<10705, 10705, 10706>>, <<10706, 10706, 10705>>,
          <<10708, 10708, 10709>>, <<10709, 10709, 10708>>,
          <<10712, 10712, 10713>>, <<10713, 10713, 10712>>,
          <<10714, 10714, 10715>>, <<10715, 10715, 10714>>,
          <<10728, 10728, 10729>>, <<10729, 10729, 10728>>,
          <<10741, 10741, 8725>>, <<10744, 10744, 10745>>,
          <<10745, 10745, 10744>>, <<10748, 10748, 10749>>,
          <<10749, 10749, 10748>>, <<10797, 10797, 10798>>,
          <<10798, 10798, 10797>>, <<10804, 10804, 10805>>,
          <<10805, 10805, 10804>>, <<10873, 10873, 10874>>,
          <<10874, 10874, 10873>>, <<10875, 10875, 10876>>,
          <<10876, 10876, 10875>>, <<10877, 10877, 10878>>,
          <<10878, 10878, 10877>>, <<10879, 10879, 10880>>,
          <<10880, 10880, 10879>>, <<10881, 10881, 10882>>,
          <<10882, 10882, 10881>>, <<10885, 10885, 10886>>,
          <<10886, 10886, 10885>>, <<10887, 10887, 10888>>,
          <<10888, 10888, 10887>>, <<10889, 10889, 10890>>,
          <<10890, 10890, 10889>>, <<10891, 10891, 10892>>,
          <<10892, 10892, 10891>>, <<10893, 10893, 10894>>,
          <<10894, 10894, 10893>>, <<10895, 10895, 10896>>,
          <<10896, 10896, 10895>>, <<10897, 10897, 10898>>,
          <<10898, 10898, 10897>>, <<10899, 10899, 10900>>,
          <<10900, 10900, 10899>>, <<10901, 10901, 10902>>,
          <<10902, 10902, 10901>>, <<10903, 10903, 10904>>,
          <<10904, 10904, 10903>>, <<10905, 10905, 10906>>,
          <<10906, 10906, 10905>>, <<10907, 10907, 10908>>,
          <<10908, 10908, 10907>>, <<10909, 10909, 10910>>,
          <<10910, 10910, 10909>>, <<10911, 10911, 10912>>,
          <<10912, 10912, 10911>>, <<10913, 10913, 10914>>,
          <<10914, 10914, 10913>>, <<10918, 10918, 10919>>,
          <<10919, 10919, 10918>>, <<10920, 10920, 10921>>,
          <<10921, 10921, 10920>>, <<10927, 10927, 10928>>,
          <<10928, 10928, 10927>>, <<10929, 10929, 10930>>,
          <<10930, 10930, 10929>>, <<10931, 10931, 10932>>,
          <<10932, 10932, 10931>>, <<10933, 10933, 10934>>,
          <<10934, 10934, 10933>>, <<10935, 10935, 10936>>,
          <<10936, 10936, 10935>>, <<10937, 10937, 10938>>,
          <<10938, 10938, 10937>>, <<10939, 10939, 10940>>,
          <<10940, 10940, 10939>>, <<10941, 10941, 10942>>,
          <<10942, 10942, 10941>>, <<10943, 10943, 10944>>,
          <<10944, 10944, 10943>>, <<10945, 10945, 10946>>,
          <<10946, 10946, 10945>>, <<10947, 10947, 10948>>,
          <<10948, 10948, 10947>>, <<10949, 10949, 10950>>,
          <<10950, 10950, 10949>>, <<10951, 10951, 10952>>,
          <<10952, 10952, 10951>>, <<10953, 10953, 10954>>,
          <<10954, 10954, 10953>>, <<10955, 10955, 10956>>,
          <<10956, 10956, 10955>>, <<10957, 10957, 10958>>,
          <<10958, 10958, 10957>>, <<10959, 10959, 10960>>,
          <<10960, 10960, 10959>>, <<10961, 10961, 10962>>,
          <<10962, 10962, 10961>>, <<10963, 10963, 10964>>,
          <<10964, 10964, 10963>>, <<10965, 10965, 10966>>,
          <<10966, 10966, 10965>>, <<10974, 10974, 8870>>,
          <<10979, 10979, 8873>>, <<10980, 10980, 8872>>,
          <<10981, 10981, 8875>>, <<10999, 10999, 11000>>,
          <<11000, 11000, 10999>>, <<11001, 11001, 11002>>,
          <<11002, 11002, 11001>>, <<11778, 11778, 11779>>,
          <<11779, 11779, 11778>>, <<11780, 11780, 11781>>,
          <<11781, 11781, 11780>>, <<11785, 11785, 11786>>,
          <<11786, 11786, 11785>>, <<11788, 11788, 11789>>,
          <<11789, 11789, 11788>>, <<11804, 11804, 11805>>,
          <<11805, 11805, 11804>>, <<11808, 11808, 11809>>,
          <<11809, 11809, 11808>>, <<11810, 11810, 11811>>,
          <<11811, 11811, 11810>>, <<11812, 11812, 11813>>,
          <<11813, 11813, 11812>>, <<11814, 11814, 11815>>,
          <<11815, 11815, 11814>>, <<11816, 11816, 11817>>,
          <<11817, 11817, 11816>>, <<11861, 11861, 11862>>,
          <<11862, 11862, 11861>>, <<11863, 11863, 11864>>,
          <<11864, 11864, 11863>>, <<11865, 11865, 11866>>,
          <<11866, 11866, 11865>>, <<11867, 11867, 11868>>,
          <<11868, 11868, 11867>>, <<12296, 12296, 12297>>,
          <<12297, 12297, 12296>>, <<12298, 12298, 12299>>,
          <<12299, 12299, 12298>>, <<12300, 12300, 12301>>,
          <<12301, 12301, 12300>>, <<12302, 12302, 12303>>,
          <<12303, 12303, 12302>>, <<12304, 12304, 12305>>,
          <<12305, 12305, 12304>>, <<12308, 12308, 12309>>,
          <<12309, 12309, 12308>>, <<12310, 12310, 12311>>,
          <<12311, 12311, 12310>>, <<12312, 12312, 12313>>,
          <<12313, 12313, 12312>>, <<12314, 12314, 12315>>,
          <<12315, 12315, 12314>>, <<65113, 65113, 65114>>,
          <<65114, 65114, 65113>>, <<65115, 65115, 65116>>,
          <<65116, 65116, 65115>>, <<65117, 65117, 65118>>,
          <<65118, 65118, 65117>>, <<65124, 65124, 65125>>,
          <<65125, 65125, 65124>>, <<65288, 65288, 65289>>,
          <<65289, 65289, 65288>>, <<65308, 65308, 65310>>,
          <<65310, 65310, 65308>>, <<65339, 65339, 65341>>,
          <<65341, 65341, 65339>>, <<65371, 65371, 65373>>,
          <<65373, 65373, 65371>>, <<65375, 65375, 65376>>,
          <<65376, 65376, 65375>>, <<65378, 65378, 65379>>,
          <<65379, 65379, 65378>>
        >>
    ]

(***************************************************************************)
(* Python values of a message's fields: a key that is absent, None, a str, *)
(* an int, or a float too large or too odd to be an int of the model.      *)
(***************************************************************************)
Absent   == [t |-> "absent"]
None     == [t |-> "None"]
PyStr(s)   == [t |-> "str", s |-> s]
PyInt(v)   == [t |-> "int", v |-> v]
\* k names the float: "nan", "inf", "1e12", "1e17", "1e20"
PyFloat(k) == [t |-> "float", k |-> k]
\* an int beyond the 32 bits of the integers above; k names it: "10**12",
\* "10**17", "10**20"
PyBigInt(k) == [t |-> "bigint", k |-> k]

\* message.get(key, default)
Get(message, key, default) ==
    IF message[key] = Absent THEN default ELSE message[key]

\* the truth value Python gives v in "if v"
Truthy(v) ==
    IF v.t = "None" THEN FALSE
    ELSE IF v.t = "int" THEN v.v # 0
    ELSE IF v.t = "str" THEN v.s # <<>>
    ELSE TRUE

\* the outcome of an expression: a value, or the exception it raises
Ok(v)           == [exc |-> "none", where |-> "none", v |-> v]
Raise(e, where) == [exc |-> e, where |-> where, v |-> None]

(***************************************************************************)
(* html.escape(s, quote=True)                                              *)
(***************************************************************************)
\* a variant that leaves '>' as it is
EscapeCharKeepGt(c) ==
    IF c = CP.amp THEN STR.amp
    ELSE IF c = CP.lt THEN STR.lt
    ELSE IF c = CP.quot THEN STR.quot
    ELSE IF c = CP.apos THEN STR.apos
    ELSE <<c>>

EscapeChar(c) ==
    IF c = CP.amp THEN STR.amp
    ELSE IF c = CP.lt THEN STR.lt
    ELSE IF c = CP.gt THEN STR.gt
    ELSE IF c = CP.quot THEN STR.quot
    ELSE IF c = CP.apos THEN STR.apos
    ELSE <<c>>

RECURSIVE escape(_)
escape(s) == IF s = <<>> THEN <<>> ELSE EscapeChar(Head(s)) \o escape(Tail(s))

(***************************************************************************)
(* str.title(): a character that follows a cased character is lower-cased, *)
(* every other character is title-cased, by the full Unicode case mappings.*)
(***************************************************************************)
IsCased(c) == InTable(UnicodeCase.cased, c)
IsCaseIgnorable(c) == InTable(UnicodeCase.ignorable, c)

\* the mapping of c by a table of simple mappings, found at index j
SimpleCase(simple, c, j) ==
    IF j # 0 /\ (c - simple[j][1]) % simple[j][3] = 0
    THEN <<c + simple[j][4]>> ELSE <<c>>

\* the full mapping of c, found at index k of full, or else its simple one
FullCase(simple, full, c, k) ==
    IF k # 0 THEN full[k][3]
    ELSE SimpleCase(simple, c, RangeIndex(simple, c, 1, Len(simple)))

ToLowerFull(c) ==
    FullCase(UnicodeCase.lower, UnicodeCase.lower_full, c,
             RangeIndex(UnicodeCase.lower_full, c, 1,
                        Len(UnicodeCase.lower_full)))

ToTitleFull(c) ==
    FullCase(UnicodeCase.title, UnicodeCase.title_full, c,
             RangeIndex(UnicodeCase.title_full, c, 1,
                        Len(UnicodeCase.title_full)))

RECURSIVE SkipIgnorable(_, _, _)
\* the first position from i on, going by dir, whose character is not
\* case-ignorable; 0 when the string ends first
SkipIgnorable(s, i, dir) ==
    IF i < 1 \/ i > Len(s) THEN 0
    ELSE IF ~IsCaseIgnorable(s[i]) THEN i
    ELSE SkipIgnorable(s, i + dir, dir)

\* a capital sigma is final when a cased letter comes before it and none
\* comes after it, case-ignorable characters skipped
FinalSigma(s, before, after) ==
    /\ before # 0 /\ IsCased(s[before])
    /\ after = 0 \/ ~IsCased(s[after])

\* lower_ucs4: the lower case of the character at position i of s
lower_ucs4(s, i) ==
    IF s[i] = CP.SIGMA
    THEN <<IF FinalSigma(s, SkipIgnorable(s, i - 1, -1),
                         SkipIgnorable(s, i + 1, 1))
           THEN CP.finalSigma ELSE CP.sigma>>
    ELSE ToLowerFull(s[i])

title(s) ==
    Flatten(List([i \in 1..Len(s) |->
                    IF i > 1 /\ IsCased(s[i - 1]) THEN lower_ucs4(s, i)
                    ELSE ToTitleFull(s[i])]))

(***************************************************************************)
(* rtl_re and contains_rtl                                                 *)
(***************************************************************************)
InRange(c, lo, hi) == c >= lo /\ c <= hi

\* the character class of rtl_re
RtlReMatches(c) ==
    \/ InRange(c, 1536, 1791)      \* U+0600-U+06FF
    \/ InRange(c, 1424, 1535)      \* U+0590-U+05FF
    \/ InRange(c, 1872, 1919)      \* U+0750-U+077F
    \/ InRange(c, 64336, 65023)    \* U+FB50-U+FDFF
    \/ InRange(c, 65136, 65279)    \* U+FE70-U+FEFF
    \/ InRange(c, 1792, 1871)      \* U+0700-U+074F
    \/ InRange(c, 1920, 1983)      \* U+0780-U+07BF

contains_rtl(txt) == \E i \in 1..Len(txt) : RtlReMatches(txt[i])

\* a variant that takes every character of rtl_re for Arabic
ArabicReMatchesAnyRtl(c) == RtlReMatches(c)

\* the character class of the re.search in fix_rtl
ArabicReMatches(c) == InRange(c, 1536, 1791)   \* U+0600-U+06FF
HasArabic(line) == \E i \in 1..Len(line) : ArabicReMatches(line[i])

(***************************************************************************)
(* textwrap.wrap(text, width) with the default options: expand tabs, turn  *)
(* every whitespace character into a space, split into chunks by           *)
(* wordsep_re (break_on_hyphens), fill the lines.                          *)
(***************************************************************************)
\* textwrap._whitespace
IsWs(c) == c \in {CP.tab, CP.nl, CP.vt, CP.ff, CP.cr, CP.sp}

RECURSIVE Spaces(_)
Spaces(n) == IF n <= 0 THEN <<>> ELSE <<CP.sp>> \o Spaces(n - 1)

RECURSIVE ExpandTabsFrom(_, _)
\* str.expandtabs(8), the column restarting after \n and \r
ExpandTabsFrom(s, col) ==
    IF s = <<>> THEN <<>>
    ELSE IF Head(s) = CP.tab
    THEN Spaces(8 - (col % 8)) \o ExpandTabsFrom(Tail(s), 0)
    ELSE <<Head(s)>>
         \o ExpandTabsFrom(Tail(s),
                           IF Head(s) \in {CP.nl, CP.cr} THEN 0 ELSE col + 1)

\* text.translate(unicode_whitespace_trans)
TranslateWs(e) ==
    List([i \in 1..Len(e) |-> IF IsWs(e[i]) THEN CP.sp ELSE e[i]])

MungeWhitespace(s) == TranslateWs(ExpandTabsFrom(s, 0))

\* the character at position i of s, or -1 outside s
At(s, i) == IF i >= 1 /\ i <= Len(s) THEN s[i] ELSE -1

\* the classes of wordsep_re: \w, letter = [^\d\W], word_punct
IsWordChar(c) == InTable(UnicodeText.word, c)
IsLetter(c) == IsWordChar(c) /\ ~InTable(UnicodeText.digit, c)
IsWordPunct(c) ==
    IsWordChar(c) \/ c \in {CP.excl, CP.quot, CP.apos, CP.amp, CP.dot,
                            CP.comma, CP.quest}

RECURSIVE RunLen(_, _, _)
\* how many characters from position p on are whitespace (ws = TRUE) or are
\* not (ws = FALSE)
RunLen(s, p, ws) ==
    IF p > Len(s) \/ IsWs(s[p]) # ws THEN 0 ELSE 1 + RunLen(s, p + 1, ws)

RECURSIVE HyphenRun(_, _)
HyphenRun(s, p) == IF At(s, p) # CP.hyphen THEN 0 ELSE 1 + HyphenRun(s, p + 1)

\* -{2,} followed by \w, from position p on
EmDashAt(s, p) ==
    HyphenRun(s, p) >= 2 /\ IsWordChar(At(s, p + HyphenRun(s, p)))

\* the hyphen at position e ends a chunk: it follows two letters, or a
\* letter, a hyphen and a letter, and a letter and (after at most one more
\* hyphen) another letter follow it
HyphenBreakAt(s, e) ==
    /\ At(s, e) = CP.hyphen
    /\ \/ IsLetter(At(s, e - 2)) /\ IsLetter(At(s, e - 1))
       \/ /\ IsLetter(At(s, e - 3)) /\ At(s, e - 2) = CP.hyphen
          /\ IsLetter(At(s, e - 1))
    /\ IsLetter(At(s, e + 1))
    /\ \/ IsLetter(At(s, e + 2))
       \/ At(s, e + 2) = CP.hyphen /\ IsLetter(At(s, e + 3))

RECURSIVE WordLen(_, _, _)
\* the length of the word chunk that starts at position p: the least n >= 1
\* after which the hyphen, end-of-word or em-dash alternative matches
WordLen(s, p, n) ==
    IF HyphenBreakAt(s, p + n) THEN n + 1
    ELSE IF p + n > Len(s) \/ IsWs(s[p + n]) THEN n
    ELSE IF IsWordPunct(s[p + n - 1]) /\ EmDashAt(s, p + n) THEN n
    ELSE WordLen(s, p, n + 1)

\* the length of the chunk wordsep_re matches at position p
ChunkLen(s, p) ==
    IF IsWs(s[p]) THEN RunLen(s, p, TRUE)
    ELSE IF p > 1 /\ IsWordPunct(s[p - 1]) /\ EmDashAt(s, p)
    THEN HyphenRun(s, p)
    ELSE WordLen(s, p, 1)

RECURSIVE SplitFrom(_, _)
SplitFrom(s, p) ==
    IF p > Len(s) THEN <<>>
    ELSE <<SubSeq(s, p, p + ChunkLen(s, p) - 1)>>
         \o SplitFrom(s, p + ChunkLen(s, p))

\* TextWrapper._split
SplitChunks(s) == SplitFrom(s, 1)

\* chunk.strip() == ''
IsBlank(chunk) ==
    \A i \in 1..Len(chunk) : InTable(UnicodeText.space, chunk[i])

RECURSIVE Fitting(_, _, _)
\* how many leading chunks fit on a line that already holds cur_len columns
Fitting(chunks, cur_len, wd) ==
    IF chunks = <<>> \/ cur_len + Len(Head(chunks)) > wd THEN 0
    ELSE 1 + Fitting(Tail(chunks), cur_len + Len(Head(chunks)), wd)

\* TextWrapper._wrap_chunks: one pass of its outer loop makes one line
RECURSIVE WrapChunks(_, _, _)

\* lines.append(''.join(cur_line)), if cur_line is not empty
AppendLine(lines, cur_line) ==
    IF cur_line # <<>> THEN Append(lines, Flatten(cur_line)) ELSE lines

\* drop_whitespace: a trailing blank chunk of the line is dropped
DropTrailingBlank(cur_line) ==
    IF cur_line # <<>> /\ IsBlank(cur_line[Len(cur_line)])
    THEN SubSeq(cur_line, 1, Len(cur_line) - 1) ELSE cur_line

EndLine(cur_line, rest, lines, wd) ==
    WrapChunks(rest, AppendLine(lines, DropTrailingBlank(cur_line)), wd)

RECURSIVE RFind(_, _, _)
\* chunk.rfind(c, 0, n) + 1: the last position <= n of c in chunk, or 0
RFind(chunk, c, n) ==
    IF n < 1 THEN 0
    ELSE IF n <= Len(chunk) /\ chunk[n] = c THEN n
    ELSE RFind(chunk, c, n - 1)

\* break_on_hyphens in _handle_long_word: the piece ends after the last
\* hyphen that fits, if something other than hyphens comes before it
BreakEnd(chunk, space_left, hyphen) ==
    IF Len(chunk) > space_left /\ hyphen > 1
       /\ \E i \in 1..(hyphen - 1) : chunk[i] # CP.hyphen
    THEN hyphen ELSE space_left

\* _handle_long_word with break_long_words: the line takes the head of the
\* chunk up to end
TakePiece(fitted, rest, end, lines, wd) ==
    EndLine(Append(fitted, SubSeq(Head(rest), 1, end)),
            <<SubSeq(Head(rest), end + 1, Len(Head(rest)))>> \o Tail(rest),
            lines, wd)

HandleLongWord(fitted, rest, space_left, lines, wd) ==
    TakePiece(fitted, rest,
              BreakEnd(Head(rest), space_left,
                       RFind(Head(rest), CP.hyphen, space_left)),
              lines, wd)

BreakLong(fitted, rest, lines, wd) ==
    IF rest # <<>> /\ Len(Head(rest)) > wd
    THEN HandleLongWord(fitted, rest,
                        IF wd < 1 THEN 1 ELSE wd - Len(Flatten(fitted)),
                        lines, wd)
    ELSE EndLine(fitted, rest, lines, wd)

TakeFitted(chunks, k, lines, wd) ==
    BreakLong(SubSeq(chunks, 1, k), SubSeq(chunks, k + 1, Len(chunks)),
              lines, wd)

\* drop_whitespace: a blank chunk that would start a line after the first
DropLeadingBlank(chunks, lines) ==
    IF IsBlank(Head(chunks)) /\ lines # <<>> THEN Tail(chunks) ELSE chunks

FillLine(chunks, lines, wd) ==
    TakeFitted(chunks, Fitting(chunks, 0, wd), lines, wd)

WrapChunks(chunks, lines, wd) ==
    IF chunks = <<>> THEN lines
    ELSE FillLine(DropLeadingBlank(chunks, lines), lines, wd)

\* textwrap.wrap: _wrap_chunks raises ValueError for a width below 1
textwrap_wrap(txt, wd) ==
    IF wd <= 0 THEN Raise("ValueError", "textwrap.wrap")
    ELSE Ok(WrapChunks(SplitChunks(MungeWhitespace(txt)), <<>>, wd))

\* arabic_reshaper's LETTERS_ARABIC: <<letter, letter, isolated, initial,
\* medial, final>>, 0 where the letter has no such form
LETTERS ==
    <<
      <<1569, 1569, 65152, 0, 0, 0>>, <<1570, 1570, 65153, 0, 0, 65154>>,
      <<1571, 1571, 65155, 0, 0, 65156>>, <<1572, 1572, 65157, 0, 0, 65158>>,
      <<1573, 1573, 65159, 0, 0, 65160>>,
      <<1574, 1574, 65161, 65163, 65164, 65162>>,
      <<1575, 1575, 65165, 0, 0, 65166>>,
      <<1576, 1576, 65167, 65169, 65170, 65168>>,
      <<1577, 1577, 65171, 0, 0, 65172>>,
      <<1578, 1578, 65173, 65175, 65176, 65174>>,
      <<1579, 1579, 65177, 65179, 65180, 65178>>,
      <<1580, 1580, 65181, 65183, 65184, 65182>>,
      <<1581, 1581, 65185, 65187, 65188, 65186>>,
      <<1582, 1582, 65189, 65191, 65192, 65190>>,
      <<1583, 1583, 65193, 0, 0, 65194>>, <<1584, 1584, 65195, 0, 0, 65196>>,
      <<1585, 1585, 65197, 0, 0, 65198>>, <<1586, 1586, 65199, 0, 0, 65200>>,
      <<1587, 1587, 65201, 65203, 65204, 65202>>,
      <<1588, 1588, 65205, 65207, 65208, 65206>>,
      <<1589, 1589, 65209, 65211, 65212, 65210>>,
      <<1590, 1590, 65213, 65215, 65216, 65214>>,
      <<1591, 1591, 65217, 65219, 65220, 65218>>,
      <<1592, 1592, 65221, 65223, 65224, 65222>>,
      <<1593, 1593, 65225, 65227, 65228, 65226>>,
      <<1594, 1594, 65229, 65231, 65232, 65230>>,
      <<1600, 1600, 1600, 1600, 1600, 1600>>,
      <<1601, 1601, 65233, 65235, 65236, 65234>>,
      <<1602, 1602, 65237, 65239, 65240, 65238>>,
      <<1603, 1603, 65241, 65243, 65244, 65242>>,
      <<1604, 1604, 65245, 65247, 65248, 65246>>,
      <<1605, 1605, 65249, 65251, 65252, 65250>>,
      <<1606, 1606, 65253, 65255, 65256, 65254>>,
      <<1607, 1607, 65257, 65259, 65260, 65258>>,
      <<1608, 1608, 65261, 0, 0, 65262>>,
      <<1609, 1609, 65263, 64488, 64489, 65264>>,
      <<1610, 1610, 65265, 65267, 65268, 65266>>,
      <<1649, 1649, 64336, 0, 0, 64337>>, <<1655, 1655, 64477, 0, 0, 0>>,
      <<1657, 1657, 64358, 64360, 64361, 64359>>,
      <<1658, 1658, 64350, 64352, 64353, 64351>>,
      <<1659, 1659, 64338, 64340, 64341, 64339>>,
      <<1662, 1662, 64342, 64344, 64345, 64343>>,
      <<1663, 1663, 64354, 64356, 64357, 64355>>,
      <<1664, 1664, 64346, 64348, 64349, 64347>>,
      <<1667, 1667, 64374, 64376, 64377, 64375>>,
      <<1668, 1668, 64370, 64372, 64373, 64371>>,
      <<1670, 1670, 64378, 64380, 64381, 64379>>,
      <<1671, 1671, 64382, 64384, 64385, 64383>>,
      <<1672, 1672, 64392, 0, 0, 64393>>, <<1676, 1676, 64388, 0, 0, 64389>>,
      <<1677, 1677, 64386, 0, 0, 64387>>, <<1678, 1678, 64390, 0, 0, 64391>>,
      <<1681, 1681, 64396, 0, 0, 64397>>, <<1688, 1688, 64394, 0, 0, 64395>>,
      <<1700, 1700, 64362, 64364, 64365, 64363>>,
      <<1702, 1702, 64366, 64368, 64369, 64367>>,
      <<1705, 1705, 64398, 64400, 64401, 64399>>,
      <<1709, 1709, 64467, 64469, 64470, 64468>>,
      <<1711, 1711, 64402, 64404, 64405, 64403>>,
      <<1713, 1713, 64410, 64412, 64413, 64411>>,
      <<1715, 1715, 64406, 64408, 64409, 64407>>,
      <<1722, 1722, 64414, 0, 0, 64415>>,
      <<1723, 1723, 64416, 64418, 64419, 64417>>,
      <<1726, 1726, 64426, 64428, 64429, 64427>>,
      <<1728, 1728, 64420, 0, 0, 64421>>,
      <<1729, 1729, 64422, 64424, 64425, 64423>>,
      <<1733, 1733, 64480, 0, 0, 64481>>, <<1734, 1734, 64473, 0, 0, 64474>>,
      <<1735, 1735, 64471, 0, 0, 64472>>, <<1736, 1736, 64475, 0, 0, 64476>>,
      <<1737, 1737, 64482, 0, 0, 64483>>, <<1739, 1739, 64478, 0, 0, 64479>>,
      <<1740, 1740, 64508, 64510, 64511, 64509>>,
      <<1744, 1744, 64484, 64486, 64487, 64485>>,
      <<1746, 1746, 64430, 0, 0, 64431>>, <<1747, 1747, 64432, 0, 0, 64433>>,
      <<8205, 8205, 8205, 8205, 8205, 8205>>
    >>

(***************************************************************************)
(* arabic_reshaper.reshape(text) with the default configuration: harakat   *)
(* are deleted, the tatweel is kept, ZWJ is supported, and the ligatures   *)
(* ALLAH and LAM WITH ALEF (plain, with hamza above or below, with madda)  *)
(* are used.                                                               *)
(***************************************************************************)
\* the forms of a letter; a letter's form f is column 3 + f of its LETTERS row
FORM == [NOT_SUPPORTED |-> -1, ISOLATED |-> 0, INITIAL |-> 1, MEDIAL |-> 2,
         FINAL |-> 3]

\* the enabled ligatures, in the order of the regular expression:
\* <<letters, isolated, initial, medial, final>>
LIGATURES ==
    << <<<<1575, 1604, 1604, 1607>>, 65010, 0, 0, 0>>,
       <<<<1604, 1575>>, 65275, 0, 0, 65276>>,
       <<<<1604, 1571>>, 65271, 0, 0, 65272>>,
       <<<<1604, 1573>>, 65273, 0, 0, 65274>>,
       <<<<1604, 1570>>, 65269, 0, 0, 65270>> >>

\* HARAKAT_RE
IsHaraka(c) ==
    \/ InRange(c, 1552, 1562) \/ InRange(c, 1611, 1631) \/ c = 1648
    \/ InRange(c, 1750, 1756) \/ InRange(c, 1759, 1768)
    \/ InRange(c, 1770, 1773) \/ InRange(c, 2260, 2303)

\* letter in self.letters
IsLetterOf(c) == InTable(LETTERS, c)

\* self.letters[letter][form], 0 for the empty string
LetterForm(c, form) ==
    LETTERS[RangeIndex(LETTERS, c, 1, Len(LETTERS))][3 + form]

connects_with_letter_before(c) ==
    IsLetterOf(c)
    /\ (LetterForm(c, FORM.FINAL) # 0 \/ LetterForm(c, FORM.MEDIAL) # 0)
connects_with_letter_after(c) ==
    LetterForm(c, FORM.INITIAL) # 0 \/ LetterForm(c, FORM.MEDIAL) # 0
connects_with_letters_before_and_after(c) ==
    LetterForm(c, FORM.FINAL) # 0 /\ LetterForm(c, FORM.MEDIAL) # 0

\* the form the letter c takes after the output so far, and what that does to
\* the form of the letter before it
AppendShaped(output, c, n) ==
    IF n = 0 \/ output[n].form = FORM.NOT_SUPPORTED
       \/ ~connects_with_letter_before(c)
       \/ ~connects_with_letter_after(output[n].letter)
       \/ (output[n].form = FORM.FINAL
           /\ ~connects_with_letters_before_and_after(output[n].letter))
    THEN Append(output, [letter |-> c, form |-> FORM.ISOLATED])
    ELSE IF output[n].form = FORM.ISOLATED
    THEN Append([output EXCEPT ![n].form = FORM.INITIAL],
                [letter |-> c, form |-> FORM.FINAL])
    ELSE Append([output EXCEPT ![n].form = FORM.MEDIAL],
                [letter |-> c, form |-> FORM.FINAL])

\* output.pop(k - 1), k the 1-based position
PopAt(output, k) ==
    SubSeq(output, 1, k - 1) \o SubSeq(output, k + 1, Len(output))

\* a ZWJ that has become the second to last item is removed
PopZwj(output) ==
    IF Len(output) > 1 /\ output[Len(output) - 1].letter = CP.zwj
    THEN PopAt(output, Len(output) - 1) ELSE output

\* one pass of reshape's loop over the letters
ReshapeStep(output, c) ==
    PopZwj(IF IsHaraka(c) THEN output
           ELSE IF ~IsLetterOf(c)
           THEN Append(output, [letter |-> c, form |-> FORM.NOT_SUPPORTED])
           ELSE AppendShaped(output, c, Len(output)))

RECURSIVE ReshapeForms(_, _)
\* the main loop of reshape: output is a list of (letter, form); a ZWJ left
\* at its end is removed
ReshapeForms(txt, output) ==
    IF txt # <<>>
    THEN ReshapeForms(Tail(txt), ReshapeStep(output, Head(txt)))
    ELSE IF output # <<>> /\ output[Len(output)].letter = CP.zwj
    THEN PopAt(output, Len(output))
    ELSE output

\* HARAKAT_RE.sub('', text)
DeleteHarakat(txt) == SelectSeq(txt, LAMBDA c : ~IsHaraka(c))

RECURSIVE LigatureAt(_, _, _)
\* the first ligature from the k-th on whose letters are at position p of
\* text; 0 when none is
LigatureAt(txt, p, k) ==
    IF k > Len(LIGATURES) THEN 0
    ELSE IF p + Len(LIGATURES[k][1]) - 1 <= Len(txt)
            /\ SubSeq(txt, p, p + Len(LIGATURES[k][1]) - 1) = LIGATURES[k][1]
    THEN k
    ELSE LigatureAt(txt, p, k + 1)

\* the form of the ligature, from the forms of its first and last letter
LigatureForm(a_form, b_form) ==
    IF a_form \in {FORM.ISOLATED, FORM.INITIAL}
    THEN (IF b_form \in {FORM.ISOLATED, FORM.FINAL}
          THEN FORM.ISOLATED ELSE FORM.INITIAL)
    ELSE (IF b_form \in {FORM.ISOLATED, FORM.FINAL}
          THEN FORM.FINAL ELSE FORM.MEDIAL)

\* output[a] = (ligature, NOT_SUPPORTED); output[a + 1:b] = empty letters
PutLigature(output, a, b, ligature) ==
    IF ligature = 0 THEN output
    ELSE List([i \in 1..Len(output) |->
                 IF i = a
                 THEN [letter |-> ligature, form |-> FORM.NOT_SUPPORTED]
                 ELSE IF i > a /\ i <= b
                 THEN [letter |-> 0, form |-> FORM.NOT_SUPPORTED]
                 ELSE output[i]])

RECURSIVE ApplyLigatures(_, _, _)

\* one match of the ligature k at the positions p..b of text: the same
\* positions of output are read and rewritten; output is shorter than text
\* when a ZWJ was removed from it, and reading past its end is an IndexError
ApplyLigature(txt, p, b, k, output) ==
    IF b > Len(output) THEN Raise("IndexError", "reshape")
    ELSE ApplyLigatures(
             txt, b + 1,
             PutLigature(output, p, b,
                         LIGATURES[k][2 + LigatureForm(output[p].form,
                                                       output[b].form)]))

\* the loop over re.finditer(self._ligatures_re, text), from position p on
ApplyLigatures(txt, p, output) ==
    IF p > Len(txt) THEN Ok(output)
    ELSE IF LigatureAt(txt, p, 1) = 0
    THEN ApplyLigatures(txt, p + 1, output)
    ELSE ApplyLigature(txt, p,
                       p + Len(LIGATURES[LigatureAt(txt, p, 1)][1]) - 1,
                       LigatureAt(txt, p, 1), output)

\* what an item of output contributes to the result
ShapedChar(o) ==
    IF o.letter = 0 THEN <<>>
    ELSE IF o.form = FORM.NOT_SUPPORTED THEN <<o.letter>>
    ELSE IF LetterForm(o.letter, o.form) = 0 THEN <<>>
    ELSE <<LetterForm(o.letter, o.form)>>

ShapedText(output) ==
    Flatten(List([i \in 1..Len(output) |-> ShapedChar(output[i])]))

\* ''.join(result), when the ligature loop has not raised
JoinShaped(r) == IF r.exc = "none" THEN Ok(ShapedText(r.v)) ELSE r

reshape(txt) ==
    IF txt = <<>> THEN Ok(<<>>)
    ELSE JoinShaped(ApplyLigatures(DeleteHarakat(txt), 1,
                                   ReshapeForms(txt, <<>>)))

(***************************************************************************)
(* bidi.algorithm.get_display(text) with its default arguments: the        *)
(* Unicode bidirectional algorithm as python-bidi implements it.  A        *)
(* character is a record [ch, level, type, orig].                          *)
(***************************************************************************)
\* unicodedata.bidirectional(c): "" for an unassigned code point
BidiClass(c) ==
    IF InTable(UnicodeBidi.class, c)
    THEN UnicodeBidi.class[RangeIndex(UnicodeBidi.class, c, 1,
                                      Len(UnicodeBidi.class))][3]
    ELSE ""

\* MIRRORED.get(c, c) for a character with unicodedata.mirrored(c)
MirrorChar(c) ==
    IF InTable(UnicodeBidi.mirrored, c) /\ InTable(UnicodeBidi.pairs, c)
    THEN UnicodeBidi.pairs[RangeIndex(UnicodeBidi.pairs, c, 1,
                                      Len(UnicodeBidi.pairs))][3]
    ELSE c

EXPLICIT_LEVEL_LIMIT == 62

\* _embedding_direction, and calc_level_run of two levels
EmbeddingDirection(level) == IF level % 2 = 0 THEN "L" ELSE "R"
LevelRunDir(a, b) == EmbeddingDirection(IF a > b THEN a ELSE b)

\* get_base_level, rules P2 and P3: the level of the first strong character
RECURSIVE BaseLevel(_)
BaseLevel(txt) ==
    IF txt = <<>> THEN 0
    ELSE IF BidiClass(Head(txt)) = "L" THEN 0
    ELSE IF BidiClass(Head(txt)) \in {"R", "AL"} THEN 1
    ELSE BaseLevel(Tail(txt))

\* get_embedding_levels
StorageChars(txt, base) ==
    List([i \in 1..Len(txt) |->
            [ch |-> txt[i], level |-> base, type |-> BidiClass(txt[i]),
             orig |-> BidiClass(txt[i])]])

\* X2_X5_MAPPINGS: the level an embedding or override opens, and its override
NewLevel(type, level) ==
    IF type \in {"RLE", "RLO"}
    THEN (IF level % 2 = 0 THEN level + 1 ELSE level + 2)
    ELSE (IF level % 2 = 0 THEN level + 2 ELSE level + 1)
NewOverride(type) ==
    IF type = "RLO" THEN "R" ELSE IF type = "LRO" THEN "L" ELSE "N"

\* rules X2 to X5, at an embedding or override character
EmbedStep(e, type) ==
    IF e.overflow # 0 THEN [e EXCEPT !.overflow = @ + 1]
    ELSE IF NewLevel(type, e.level) < EXPLICIT_LEVEL_LIMIT
    THEN [e EXCEPT !.levels = Append(@, <<e.level, e.override>>),
                   !.level = NewLevel(type, e.level),
                   !.override = NewOverride(type)]
    ELSE IF e.level = EXPLICIT_LEVEL_LIMIT - 2
    THEN [e EXCEPT !.almost = @ + 1]
    ELSE [e EXCEPT !.overflow = @ + 1]

\* rule X7, at a PDF
PopStep(e) ==
    IF e.overflow # 0 THEN [e EXCEPT !.overflow = @ - 1]
    ELSE IF e.almost # 0 /\ e.level # EXPLICIT_LEVEL_LIMIT - 1
    THEN [e EXCEPT !.almost = @ - 1]
    ELSE IF e.levels # <<>>
    THEN [e EXCEPT !.level = e.levels[Len(e.levels)][1],
                   !.override = e.levels[Len(e.levels)][2],
                   !.levels = SubSeq(@, 1, Len(@) - 1)]
    ELSE e

\* one pass of the loop of explicit_embed_and_overrides: rules X2 to X8
ExplicitStep(e, c, base) ==
    IF c.type \in {"RLE", "LRE", "RLO", "LRO"}
    THEN [EmbedStep(e, c.type) EXCEPT !.chars = Append(@, c)]
    ELSE IF c.type \notin {"BN", "PDF", "B"}
    THEN [e EXCEPT !.chars =
                       Append(@, [c EXCEPT !.level = e.level,
                                           !.type = IF e.override # "N"
                                                    THEN e.override
                                                    ELSE c.type])]
    ELSE IF c.type = "PDF"
    THEN [PopStep(e) EXCEPT !.chars = Append(@, c)]
    ELSE IF c.type = "B"
    THEN [level |-> base, override |-> "N", levels |-> <<>>, overflow |-> 0,
          almost |-> 0, chars |-> Append(e.chars, [c EXCEPT !.level = base])]
    ELSE [e EXCEPT !.chars = Append(@, c)]

RECURSIVE ExplicitLoop(_, _, _)
ExplicitLoop(chars, e, base) ==
    IF chars = <<>> THEN e.chars
    ELSE ExplicitLoop(Tail(chars), ExplicitStep(e, Head(chars), base), base)

\* explicit_embed_and_overrides: rule X1, the loop, and rule X9
ExplicitChars(chars, base) ==
    SelectSeq(ExplicitLoop(chars,
                           [level |-> base, override |-> "N", levels |-> <<>>,
                            overflow |-> 0, almost |-> 0, chars |-> <<>>],
                           base),
              LAMBDA c : c.type \notin {"RLE", "LRE", "RLO", "LRO", "BN",
                                        "PDF"})

RECURSIVE SameLevel(_, _)
\* how many leading characters have the level
SameLevel(chars, level) ==
    IF chars = <<>> \/ Head(chars).level # level THEN 0
    ELSE 1 + SameLevel(Tail(chars), level)

RECURSIVE LevelRuns(_, _, _)

\* the level run made of the first n characters, and the runs after it
LevelRunsAt(chars, n, sor, eor, base) ==
    <<[sor |-> sor, eor |-> eor, chars |-> SubSeq(chars, 1, n)]>>
    \o LevelRuns(SubSeq(chars, n + 1, Len(chars)), eor, base)

LevelRunsOf(chars, n, sor, base) ==
    LevelRunsAt(chars, n, sor,
                LevelRunDir(chars[1].level,
                            IF n < Len(chars) THEN chars[n + 1].level
                            ELSE base),
                base)

\* calc_level_runs: the maximal runs of characters of one level, each with
\* the directions sor and eor of its two boundaries
LevelRuns(chars, sor, base) ==
    IF chars = <<>> THEN <<>>
    ELSE LevelRunsOf(chars, SameLevel(chars, chars[1].level), sor, base)

RECURSIVE Nearest(_, _, _, _, _)
\* the nearest position before i (dir = -1) or after i (dir = 1) whose type
\* is in the set types (member = TRUE) or is not in it (member = FALSE);
\* 0 when there is none
Nearest(t, i, dir, types, member) ==
    IF i + dir < 1 \/ i + dir > Len(t) THEN 0
    ELSE IF (t[i + dir] \in types) = member THEN i + dir
    ELSE Nearest(t, i + dir, dir, types, member)

TypeAt(t, j, dflt) == IF j = 0 THEN dflt ELSE t[j]

\* rule W1 at one character: a nonspacing mark takes the type of the
\* character before it
W1Type(w, type) == IF type = "NSM" THEN w.prev_type ELSE type

\* rule W2: a European number after an Arabic letter is an Arabic number
W1W2Type(w, type) ==
    IF W1Type(w, type) = "EN" /\ w.prev_strong = "AL" THEN "AN"
    ELSE W1Type(w, type)

W1W2Step(w, type) ==
    [prev_strong |-> IF W1Type(w, type) \in {"R", "L", "AL"}
                     THEN W1Type(w, type) ELSE w.prev_strong,
     prev_type   |-> W1W2Type(w, type),
     types       |-> Append(w.types, W1W2Type(w, type))]

RECURSIVE W1W2Loop(_, _)
W1W2Loop(t, w) ==
    IF t = <<>> THEN w.types ELSE W1W2Loop(Tail(t), W1W2Step(w, Head(t)))

W1W2(t, sor) ==
    W1W2Loop(t, [prev_strong |-> sor, prev_type |-> sor, types |-> <<>>])

\* rule W3: an Arabic letter is a right-to-left letter
W3(t) == List([i \in 1..Len(t) |-> IF t[i] = "AL" THEN "R" ELSE t[i]])

\* rule W4: a European separator between two European numbers, or a common
\* separator between two numbers of one type, becomes such a number.  The
\* loop rewrites in place; a character it has rewritten has a number after
\* it, which the loop leaves alone, so each step sees what the map sees.
W4(t) ==
    List([i \in 1..Len(t) |->
            IF i = 1 \/ i = Len(t) THEN t[i]
            ELSE IF t[i] = "ES" /\ t[i - 1] = "EN" /\ t[i + 1] = "EN"
            THEN "EN"
            ELSE IF t[i] = "CS" /\ t[i - 1] = t[i + 1]
                    /\ t[i - 1] \in {"AN", "EN"}
            THEN t[i - 1]
            ELSE t[i]])

\* rule W5: European terminators next to a European number join it
W5(t) ==
    List([i \in 1..Len(t) |->
            IF t[i] = "ET"
               /\ \/ TypeAt(t, Nearest(t, i, -1, {"ET"}, FALSE), "ON") = "EN"
                  \/ TypeAt(t, Nearest(t, i, 1, {"ET"}, FALSE), "ON") = "EN"
            THEN "EN" ELSE t[i]])

\* rule W6: the other separators and terminators are neutral
W6(t) ==
    List([i \in 1..Len(t) |->
            IF t[i] \in {"ET", "ES", "CS"} THEN "ON" ELSE t[i]])

\* rule W7: a European number after a left-to-right letter is left-to-right
W7(t, sor) ==
    List([i \in 1..Len(t) |->
            IF t[i] = "EN"
               /\ TypeAt(t, Nearest(t, i, -1, {"L", "R"}, TRUE), sor) = "L"
            THEN "L" ELSE t[i]])

\* resolve_weak_types, on the types of one level run
ResolveWeak(t, sor) == W7(W6(W5(W4(W3(W1W2(t, sor))))), sor)

\* rules N1, N2: numbers count as R; neutrals between two equal directions
\* take that direction, the others the embedding direction
Neutrals == {"B", "S", "WS", "ON"}
NeutralDir(x) == IF x \in {"AN", "EN"} THEN "R" ELSE x

NeutralType(prev, next, level) ==
    IF NeutralDir(prev) = NeutralDir(next) THEN NeutralDir(prev)
    ELSE EmbeddingDirection(level)

\* resolve_neutral_types, on the types of one level run
ResolveNeutral(t, sor, eor, level) ==
    List([i \in 1..Len(t) |->
            IF t[i] \notin Neutrals THEN t[i]
            ELSE NeutralType(TypeAt(t, Nearest(t, i, -1, Neutrals, FALSE), sor),
                             TypeAt(t, Nearest(t, i, 1, Neutrals, FALSE), eor),
                             level)])

\* rules I1, I2
ImplicitLevel(level, type) ==
    IF level % 2 = 0
    THEN (IF type = "R" THEN level + 1
          ELSE IF type # "L" THEN level + 2 ELSE level)
    ELSE (IF type # "R" THEN level + 1 ELSE level)

\* the characters of a level run with their resolved types t and levels
Resolved(chars, t) ==
    List([i \in 1..Len(chars) |->
            [chars[i] EXCEPT !.type = t[i],
                             !.level = ImplicitLevel(chars[i].level, t[i])]])

CharTypes(chars) == List([i \in 1..Len(chars) |-> chars[i].type])

ResolveRun(run) ==
    Resolved(run.chars,
             ResolveNeutral(ResolveWeak(CharTypes(run.chars), run.sor),
                            run.sor, run.eor, run.chars[1].level))

\* resolve_weak_types, resolve_neutral_types and resolve_implicit_levels
ResolveRuns(runs) ==
    Flatten(List([i \in 1..Len(runs) |-> ResolveRun(runs[i])]))

\* the assertion of resolve_implicit_levels: only these types are allowed
ImplicitAllowed(chars) ==
    \A i \in 1..Len(chars) : chars[i].type \in {"L", "R", "EN", "AN"}

CharOrigs(chars) == List([i \in 1..Len(chars) |-> chars[i].orig])

\* rule L1: separators, and whitespace before them or at the end of the
\* text, take the paragraph level
L1Resets(origs, i) ==
    \/ origs[i] \in {"B", "S"}
    \/ /\ origs[i] \in {"BN", "WS"}
       /\ TypeAt(origs, Nearest(origs, i, 1, {"BN", "WS"}, FALSE), "B")
              \in {"B", "S"}

L1(chars, base) ==
    List([i \in 1..Len(chars) |->
            IF L1Resets(CharOrigs(chars), i)
            THEN [chars[i] EXCEPT !.level = base] ELSE chars[i]])

Reverse(s) == List([i \in 1..Len(s) |-> s[Len(s) + 1 - i]])

RECURSIVE HighRun(_, _)
\* length of the longest prefix of levels that are all >= level
HighRun(chars, level) ==
    IF chars = <<>> \/ Head(chars).level < level THEN 0
    ELSE 1 + HighRun(Tail(chars), level)

RECURSIVE ReverseRuns(_, _)
\* one pass of reverse_contiguous_sequence: every maximal run of levels
\* >= level is reversed
ReverseRuns(chars, level) ==
    IF chars = <<>> THEN <<>>
    ELSE IF HighRun(chars, level) = 0
    THEN <<Head(chars)>> \o ReverseRuns(Tail(chars), level)
    ELSE Reverse(SubSeq(chars, 1, HighRun(chars, level)))
         \o ReverseRuns(SubSeq(chars, HighRun(chars, level) + 1, Len(chars)),
                        level)

RECURSIVE ReverseLevels(_, _, _)
\* reverse_contiguous_sequence, rule L2: from the highest level down to the
\* lowest odd level
ReverseLevels(chars, level, lowest_odd_level) ==
    IF level < lowest_odd_level THEN chars
    ELSE ReverseLevels(ReverseRuns(chars, level), level - 1,
                       lowest_odd_level)

\* highest_level and lowest_odd_level of a line, as its loop leaves them
HighestLevel(chars) ==
    CHOOSE m \in {chars[i].level : i \in 1..Len(chars)} \cup {0} :
      \A i \in 1..Len(chars) : chars[i].level <= m

LowestOddLevel(chars) ==
    CHOOSE m \in {chars[i].level : i \in 1..Len(chars)}
                 \cup {EXPLICIT_LEVEL_LIMIT} :
      /\ m % 2 = 1 \/ m = EXPLICIT_LEVEL_LIMIT
      /\ \A i \in 1..Len(chars) :
           chars[i].level % 2 = 1 => m <= chars[i].level

RECURSIVE FirstB(_, _)
\* the position of the first paragraph separator from position i on; 0 when
\* there is none
FirstB(chars, i) ==
    IF i > Len(chars) THEN 0
    ELSE IF chars[i].orig = "B" THEN i
    ELSE FirstB(chars, i + 1)

RECURSIVE ReorderLines(_)

\* the line that ends with the separator at position k, then the other lines;
\* the levels of the line are taken with its separator, which stays in place
ReorderLineTo(chars, k) ==
    ReverseLevels(SubSeq(chars, 1, k - 1), HighestLevel(SubSeq(chars, 1, k)),
                  LowestOddLevel(SubSeq(chars, 1, k)))
    \o <<chars[k]>> \o ReorderLines(SubSeq(chars, k + 1, Len(chars)))

\* the second loop of reorder_resolved_levels: rule L2 line by line
ReorderLines(chars) ==
    IF FirstB(chars, 1) # 0 THEN ReorderLineTo(chars, FirstB(chars, 1))
    ELSE ReverseLevels(chars, HighestLevel(chars), LowestOddLevel(chars))

\* apply_mirroring, rule L4, and the join of the characters
Mirrored(chars) ==
    List([i \in 1..Len(chars) |->
            IF chars[i].level % 2 = 1 THEN MirrorChar(chars[i].ch)
            ELSE chars[i].ch])

\* the steps of get_display after resolve_neutral_types
DisplayResolved(chars, base) ==
    IF ~ImplicitAllowed(chars)
    THEN Raise("AssertionError", "get_display")
    ELSE Ok(Mirrored(ReorderLines(L1(chars, base))))

\* the steps of get_display after explicit_embed_and_overrides
DisplayExplicit(chars, base) ==
    IF chars = <<>> THEN Ok(<<>>)
    ELSE DisplayResolved(
             ResolveRuns(LevelRuns(chars,
                                   LevelRunDir(base, chars[1].level), base)),
             base)

DisplayAtLevel(txt, base) ==
    DisplayExplicit(ExplicitChars(StorageChars(txt, base), base), base)

get_display(txt) == DisplayAtLevel(txt, BaseLevel(txt))

(***************************************************************************)
(* fix_rtl(text, width)                                                    *)
(***************************************************************************)
\* bidi_line = get_display(shaped), unless reshape has raised
DisplayReshaped(shaped) ==
    IF shaped.exc = "none" THEN get_display(shaped.v) ELSE shaped

\* the body of the for loop: one wrapped line to its processed line
ProcessLine(line) ==
    IF HasArabic(line) THEN DisplayReshaped(reshape(line))
    ELSE get_display(line)

RECURSIVE ProcessLines(_, _)
\* the for loop over wrapped_lines: processed_lines, or what a line raises
ProcessLines(wrapped, processed) ==
    IF wrapped = <<>> THEN Ok(processed)
    ELSE IF ProcessLine(Head(wrapped)).exc # "none"
    THEN ProcessLine(Head(wrapped))
    ELSE ProcessLines(Tail(wrapped),
                      Append(processed, ProcessLine(Head(wrapped)).v))

\* "\n".join(processed_lines)
JoinProcessed(processed) ==
    IF processed.exc = "none" THEN Ok(JoinWith(processed.v, <<CP.nl>>))
    ELSE processed

\* the loop and the join, unless textwrap.wrap has raised
ProcessWrapped(wrapped) ==
    IF wrapped.exc = "none" THEN JoinProcessed(ProcessLines(wrapped.v, <<>>))
    ELSE wrapped

fix_rtl(txt, wd) == ProcessWrapped(textwrap_wrap(txt, wd))

(***************************************************************************)
(* escape on a value of a message                                          *)
(***************************************************************************)
\* escape(v): html.escape calls v.replace, which only a str has
py_escape(v, where) ==
    IF v.t = "str" THEN Ok(PyStr(escape(v.s)))
    ELSE Raise("AttributeError", where)

(***************************************************************************)
(* datetime.fromtimestamp(timestamp) and strftime("%Y-%m-%d, %H:%M:%S")    *)
(***************************************************************************)
\* the civil date of a day number counted from 1970-01-01, computed era by
\* era of 400 years: day of era, year of era, day of year, month
CivilFromMp(y, doy, mp) ==
    [year  |-> y + (IF mp < 10 THEN 0 ELSE 1),
     month |-> IF mp < 10 THEN mp + 3 ELSE mp - 9,
     day   |-> doy - (153 * mp + 2) \div 5 + 1]
CivilFromDoy(y, doy) == CivilFromMp(y, doy, (5 * doy + 2) \div 153)
CivilFromYoe(era, doe, yoe) ==
    CivilFromDoy(yoe + era * 400,
                 doe - (365 * yoe + yoe \div 4 - yoe \div 100))
CivilFromDoe(era, doe) ==
    CivilFromYoe(era, doe,
                 (doe - doe \div 1460 + doe \div 36524 - doe \div 146096)
                 \div 365)
CivilFromDays(days) ==
    CivilFromDoe((days + 719468) \div 146097, (days + 719468) % 146097)

DateTime(date, sod) ==
    [year |-> date.year, month |-> date.month, day |-> date.day,
     hour |-> sod \div 3600, minute |-> (sod % 3600) \div 60,
     second |-> sod % 60]

\* the local time of an int timestamp: UTC plus utcoffset seconds
LocalTime(local) == DateTime(CivilFromDays(local \div 86400), local % 86400)

\* datetime.fromtimestamp: TypeError for what is no number; for a number
\* OverflowError beyond the platform's time_t, OSError where localtime
\* overflows, ValueError for NaN and for a year outside MINYEAR..MAXYEAR
\* (1..9999), also at the fold probe one day earlier
fromtimestamp(timestamp, utcoffset) ==
    IF timestamp.t \in {"None", "str"} THEN Raise("TypeError", "timestamp")
    ELSE IF timestamp.t \in {"float", "bigint"}
    THEN (IF timestamp.k \in {"nan", "1e12", "10**12"}
          THEN Raise("ValueError", "timestamp")
          ELSE IF timestamp.k \in {"1e17", "10**17"}
          THEN Raise("OSError", "timestamp")
          ELSE Raise("OverflowError", "timestamp"))
    ELSE IF \/ LocalTime(timestamp.v + utcoffset).year \notin 1..9999
            \/ LocalTime(timestamp.v + utcoffset - 86400).year < 1
    THEN Raise("ValueError", "timestamp")
    ELSE Ok(LocalTime(timestamp.v + utcoffset))

RECURSIVE Digits(_, _)
\* n in decimal, zero-padded to at least w digits
Digits(n, w) ==
    IF w <= 0 /\ n = 0 THEN <<>>
    ELSE Digits(n \div 10, w - 1) \o <<CP.zero + (n % 10)>>

\* strftime("%Y-%m-%d, %H:%M:%S") of the C library: %Y is the year as it is,
\* not padded, the other fields have two digits
strftime(dt) ==
    Digits(dt.year, 1) \o <<CP.hyphen>> \o Digits(dt.month, 2)
    \o <<CP.hyphen>> \o Digits(dt.day, 2) \o <<CP.comma, CP.sp>>
    \o Digits(dt.hour, 2) \o <<CP.colon>> \o Digits(dt.minute, 2)
    \o <<CP.colon>> \o Digits(dt.second, 2)

\* try: return date_time.strftime(...) except (ValueError, TypeError): return ""
FormatOrCatch(date_time) ==
    IF date_time.exc = "none" THEN Ok(PyStr(strftime(date_time.v)))
    ELSE IF date_time.exc \in {"ValueError", "TypeError"}
    THEN Ok(PyStr(<<>>))
    ELSE Raise(date_time.exc, "format_timestamp")

format_timestamp(timestamp, utcoffset) ==
    FormatOrCatch(fromtimestamp(timestamp, utcoffset))

(***************************************************************************)
(* PDFGenerator._build_html_message(message).  The f-string is modelled by *)
(* the values it interpolates; its literal text is the same for every      *)
(* message.                                                                *)
(***************************************************************************)
DefaultWidth == 75

RECURSIVE ReplaceNl(_)
\* content.replace("\n", "<br/>")
ReplaceNl(s) ==
    IF s = <<>> THEN <<>>
    ELSE (IF Head(s) = CP.nl THEN STR.br ELSE <<Head(s)>>) \o ReplaceNl(Tail(s))

\* model = escape(message.get("model") if role == "assistant" else "")
ModelArg(message, role) ==
    IF role = STR.assistant THEN Get(message, "model", None) ELSE PyStr(<<>>)

\* date_str = escape(self.format_timestamp(timestamp) if timestamp else "")
DateArg(timestamp, utcoffset) ==
    IF Truthy(timestamp) THEN format_timestamp(timestamp, utcoffset)
    ELSE Ok(PyStr(<<>>))

\* if contains_rtl(content): content = fix_rtl(content)
NormalizeRtl(s) ==
    IF contains_rtl(s) THEN fix_rtl(s, DefaultWidth) ELSE Ok(s)

\* the statements of _build_html_message in order; an exception ends it
BuildFromDate(role, content, model, date_str) ==
    IF date_str.exc # "none" THEN date_str
    ELSE Ok([role     |-> title(role),
             model    |-> model,
             date_str |-> date_str.v.s,
             content  |-> ReplaceNl(content)])

EscapeDate(formatted) ==
    IF formatted.exc # "none" THEN formatted
    ELSE py_escape(formatted.v, "date_str")

BuildFromModel(message, utcoffset, role, content, model) ==
    IF model.exc # "none" THEN model
    ELSE BuildFromDate(role, content, model.v.s,
                       EscapeDate(DateArg(Get(message, "timestamp", None),
                                          utcoffset)))

BuildFromRtl(message, utcoffset, role, content) ==
    IF content.exc # "none" THEN content
    ELSE BuildFromModel(message, utcoffset, role, content.v,
                        py_escape(ModelArg(message, role), "model"))

BuildFromContent(message, utcoffset, role, content) ==
    IF content.exc # "none" THEN content
    ELSE BuildFromRtl(message, utcoffset, role, NormalizeRtl(content.v.s))

BuildFromRole(message, utcoffset, role) ==
    IF role.exc # "none" THEN role
    ELSE BuildFromContent(message, utcoffset, role.v.s,
                          py_escape(Get(message, "content", PyStr(<<>>)),
                                    "content"))

build_html_message(message, utcoffset) ==
    BuildFromRole(message, utcoffset,
                  py_escape(Get(message, "role", PyStr(STR.user)), "role"))

(***************************************************************************)
(* PDFGenerator._generate_html_body(): the title and the message fragments *)
(* the f-string interpolates.                                              *)
(***************************************************************************)
\* self.html_body and self.messages_html are None until they are assigned
NoHtml == [is_none |-> TRUE, title |-> <<>>, fragments |-> <<>>]

\* "<div>" + "".join(messages_html_list) + "</div>": the fragments, in order
JoinFragments(list) == [is_none |-> FALSE, title |-> <<>>, fragments |-> list]

\* the f-string of _generate_html_body, once the title is normalised
HtmlBodyOf(title_text, self_messages_html) ==
    IF title_text.exc # "none" THEN title_text
    ELSE Ok([is_none   |-> FALSE,
             title     |-> escape(title_text.v),
             fragments |-> self_messages_html.fragments])

generate_html_body(form_title, self_messages_html) ==
    HtmlBodyOf(NormalizeRtl(form_title), self_messages_html)

(***************************************************************************)
(* The messages and titles of the chats, and what the renderer makes of    *)
(* them                                                                    *)
(***************************************************************************)
Message(role, content, model, timestamp) ==
    [role |-> role, content |-> content, model |-> model,
     timestamp |-> timestamp]

\* the messages a chat is made of: roles, contents, model names and
\* timestamps of every kind the renderer tells apart
MessagePool ==
    { Message(PyStr(STR.user), PyStr(STR.hi), Absent, Absent),
      Message(PyStr(STR.assistant),
              PyStr(<<CP.lam, CP.arAlef, CP.sp, CP.a, CP.a, CP.hyphen, CP.a,
                      CP.a, CP.sp, CP.ideoSp>>),
              PyStr(<<CP.a>>), PyInt(1700000000)),
      Message(PyStr(STR.user), PyStr(<<CP.lt, CP.a, CP.gt, CP.nl, CP.amp>>),
              PyStr(STR.m), PyFloat("1e12")),
      Message(PyStr(<<CP.lt, CP.eacute, CP.apos, CP.gt>>),
              PyStr(<<CP.arAin, CP.lt, CP.nl, CP.hebAlef, CP.gt>>),
              Absent, PyStr(<<CP.a>>)),
      Message(PyStr(STR.assistant), PyStr(<<CP.a>>), PyStr(STR.m),
              PyFloat("nan")),
      Message(PyStr(STR.assistant), PyStr(<<CP.a>>), Absent, Absent),
      Message(PyStr(<<CP.sharpS, CP.a>>), PyStr(<<CP.a>>), Absent, PyInt(0)),
      Message(Absent, Absent, Absent, PyFloat("1e20")),
      Message(PyStr(STR.user), PyStr(<<CP.arAin, CP.lri, CP.a>>), Absent,
              Absent),
      Message(PyStr(STR.user), PyStr(<<CP.a>>), Absent, PyFloat("1e17")),
      Message(PyStr(STR.user), PyStr(<<CP.a>>), Absent,
              PyBigInt("10**12")) }

TitlePool ==
    { <<>>, STR.hi, <<CP.lt, CP.arAin, CP.gt>>,
      <<CP.lt, CP.zwj, CP.lam, CP.arAlef>> }

\* the UTC offsets of local time the model considers
UtcOffsets == {0, 19800}

(***************************************************************************)
(* State.  A generation call is a thread t: its PDFGenerator instance      *)
(* (form_data, messages_html, html_body), its position pc and its locals.  *)
(* FONTS_DIR is the module's global; fs says which font directories exist   *)
(* and which font files each holds.                                        *)
(***************************************************************************)
VARIABLES
    FONTS_DIR,           \* the global FONTS_DIR: "primary", "site", "relative"
    fs,                  \* the file system: directory -> [exists, fonts]
    form_data,           \* t -> [title, messages]
    pc,                  \* t -> position in generate_chat_pdf
    tried,               \* t -> directories whose existence this call tested
    loaded,              \* t -> directory each add_font of this call loaded
    messages_html_list,  \* t -> fragments built so far
    messages_html,       \* t -> self.messages_html
    html_body,           \* t -> self.html_body
    failure,             \* t -> the exception raised inside the try block
    propagated,          \* t -> the exception that left generate_chat_pdf
    ret,                 \* t -> the value generate_chat_pdf returned
    log,                 \* t -> the steps this call has executed, in order
    calls,               \* number of calls started so far
    \* fix_rtl and contains_rtl applied to one text
    text, width, rpc, wrapped_lines, processed_lines, reshaped, result,
    raised, detected

callVars == <<FONTS_DIR, fs, form_data, pc, tried, loaded, messages_html_list,
              messages_html, html_body, failure, propagated, ret, log, calls>>
rtlVars  == <<text, width, rpc, wrapped_lines, processed_lines, reshaped,
              result, raised, detected>>
vars     == <<callVars, rtlVars>>

Dirs == {"primary", "site", "relative"}
NoExc == [exc |-> "none", where |-> "none"]
Exc(e, where) == [exc |-> e, where |-> where]

\* the add_font calls of generate_chat_pdf; font k is the file the k-th call
\* reads: NotoSans-Regular.ttf is 1, Twemoji.ttf is NumFonts
NumFonts == 12
AllFonts == 1..NumFonts

\* what the file system holds at the path of a font directory
NoDir == [exists |-> FALSE, fonts |-> {}]
DirWith(fonts) == [exists |-> TRUE, fonts |-> fonts]
\* the font files of which one may be missing from a directory
MissingFonts == {1, NumFonts}
DirStates ==
    {NoDir, DirWith(AllFonts)}
    \cup { DirWith(AllFonts \ {k}) : k \in MissingFonts }

Step(name, n) == [step |-> name, n |-> n]

(***************************************************************************)
(* generate_chat_pdf, statement by statement                               *)
(***************************************************************************)
\* pdf = FPDF(); pdf.add_page()
Begin(t) ==
    /\ pc[t] = "start"
    /\ pc' = [pc EXCEPT ![t] = "check1"]
    /\ log' = [log EXCEPT ![t] = Append(@, Step("FPDF", 0))]
    /\ UNCHANGED <<FONTS_DIR, fs, form_data, tried, loaded,
                   messages_html_list, messages_html, html_body, failure,
                   propagated, ret, calls, rtlVars>>

\* if not FONTS_DIR.exists():            (the first test)
Check1(t) ==
    /\ pc[t] = "check1"
    /\ tried' = [tried EXCEPT ![t] = Append(@, FONTS_DIR)]
    /\ pc' = [pc EXCEPT ![t] = IF fs[FONTS_DIR].exists THEN "check2"
                                  ELSE "assign1"]
    /\ UNCHANGED <<FONTS_DIR, fs, form_data, loaded, messages_html_list,
                   messages_html, html_body, failure, propagated, ret, log,
                   calls, rtlVars>>

\* FONTS_DIR = Path(site.getsitepackages()[0]) / "static/fonts"
Assign1(t) ==
    /\ pc[t] = "assign1"
    /\ FONTS_DIR' = "site"
    /\ pc' = [pc EXCEPT ![t] = "check2"]
    /\ UNCHANGED <<fs, form_data, tried, loaded, messages_html_list,
                   messages_html, html_body, failure, propagated, ret, log,
                   calls, rtlVars>>

\* if not FONTS_DIR.exists():            (the second test)
Check2(t) ==
    /\ pc[t] = "check2"
    /\ tried' = [tried EXCEPT ![t] = Append(@, FONTS_DIR)]
    /\ pc' = [pc EXCEPT ![t] = IF fs[FONTS_DIR].exists THEN "fonts"
                                  ELSE "assign2"]
    /\ UNCHANGED <<FONTS_DIR, fs, form_data, loaded, messages_html_list,
                   messages_html, html_body, failure, propagated, ret, log,
                   calls, rtlVars>>

\* FONTS_DIR = Path("./backend/static/fonts")
Assign2(t) ==
    /\ pc[t] = "assign2"
    /\ FONTS_DIR' = "relative"
    /\ pc' = [pc EXCEPT ![t] = "fonts"]
    /\ UNCHANGED <<fs, form_data, tried, loaded, messages_html_list,
                   messages_html, html_body, failure, propagated, ret, log,
                   calls, rtlVars>>

\* the next pdf.add_font(..., f"{FONTS_DIR}/<file>.ttf") of lines 147-158:
\* reads the global, then the font file of this call in that directory, and
\* raises if the file is not there
AddFont(t) ==
    /\ pc[t] = "fonts"
    /\ log' = [log EXCEPT
                 ![t] = Append(@, Step("add_font", Len(loaded[t]) + 1))]
    /\ IF /\ fs[FONTS_DIR].exists
          /\ Len(loaded[t]) + 1 \in fs[FONTS_DIR].fonts
       THEN /\ loaded' = [loaded EXCEPT ![t] = Append(@, FONTS_DIR)]
            /\ pc' = [pc EXCEPT ![t] = IF Len(loaded[t]) + 1 = NumFonts
                                       THEN "configure" ELSE "fonts"]
            /\ UNCHANGED failure
       ELSE /\ pc' = [pc EXCEPT ![t] = "except"]
            /\ UNCHANGED loaded
            /\ failure' = [failure EXCEPT
                             ![t] = Exc("FileNotFoundError", "add_font")]
    /\ UNCHANGED <<FONTS_DIR, fs, form_data, tried, messages_html_list,
                   messages_html, html_body, propagated, ret, calls, rtlVars>>

\* pdf.set_font; pdf.set_fallback_fonts; pdf.set_auto_page_break
Configure(t) ==
    /\ pc[t] = "configure"
    /\ pc' = [pc EXCEPT ![t] = "build"]
    /\ log' = [log EXCEPT ![t] = Append(@, Step("set_font", 0))]
    /\ UNCHANGED <<FONTS_DIR, fs, form_data, tried, loaded,
                   messages_html_list, messages_html, html_body, failure,
                   propagated, ret, calls, rtlVars>>

\* a variant that puts the newest fragment first
AppendFragmentFront(list, fragment) == <<fragment>> \o list

\* the list comprehension's append of one fragment
AppendFragment(list, fragment) == Append(list, fragment)

\* what one call of _build_html_message does to the comprehension: its
\* fragment is appended, or its exception leaves the try block
RecordBuild(t, r) ==
    IF r.exc = "none"
    THEN /\ messages_html_list' =
              [messages_html_list EXCEPT ![t] = AppendFragment(@, r.v)]
         /\ UNCHANGED <<pc, failure>>
    ELSE /\ pc' = [pc EXCEPT ![t] = "except"]
         /\ failure' = [failure EXCEPT ![t] = Exc(r.exc, r.where)]
         /\ UNCHANGED messages_html_list

\* one iteration of [self._build_html_message(msg) for msg in messages]
BuildMessage(t) ==
    /\ pc[t] = "build"
    /\ Len(messages_html_list[t]) < Len(form_data[t].messages)
    /\ log' = [log EXCEPT
                 ![t] = Append(@, Step("build",
                                       Len(messages_html_list[t]) + 1))]
    /\ \E utcoffset \in UtcOffsets :
         RecordBuild(t,
             build_html_message(
                 form_data[t].messages[Len(messages_html_list[t]) + 1],
                 utcoffset))
    /\ UNCHANGED <<FONTS_DIR, fs, form_data, tried, loaded, messages_html,
                   html_body, propagated, ret, calls, rtlVars>>

\* self.html_body = r, or the exception of _generate_html_body leaves the
\* try block
RecordBody(t, r) ==
    IF r.exc = "none"
    THEN /\ html_body' = [html_body EXCEPT ![t] = r.v]
         /\ pc' = [pc EXCEPT ![t] = "write_html"]
         /\ UNCHANGED failure
    ELSE /\ pc' = [pc EXCEPT ![t] = "except"]
         /\ failure' = [failure EXCEPT ![t] = Exc(r.exc, r.where)]
         /\ UNCHANGED html_body

\* self.messages_html = "<div>" + "".join(messages_html_list) + "</div>"
\* self.html_body = self._generate_html_body()
Assemble(t) ==
    /\ pc[t] = "build"
    /\ Len(messages_html_list[t]) = Len(form_data[t].messages)
    /\ messages_html' = [messages_html EXCEPT
                           ![t] = JoinFragments(messages_html_list[t])]
    /\ RecordBody(t, generate_html_body(form_data[t].title,
                                        JoinFragments(messages_html_list[t])))
    /\ log' = [log EXCEPT ![t] = Append(@, Step("generate_html_body", 0))]
    /\ UNCHANGED <<FONTS_DIR, fs, form_data, tried, loaded,
                   messages_html_list, propagated, ret, calls, rtlVars>>

\* pdf.write_html(self.html_body): the engine accepts the document or raises
WriteHtml(t) ==
    /\ pc[t] = "write_html"
    /\ log' = [log EXCEPT ![t] = Append(@, Step("write_html", 0))]
    /\ \E ok \in BOOLEAN :
         IF ok THEN /\ pc' = [pc EXCEPT ![t] = "output"]
                    /\ UNCHANGED failure
         ELSE /\ pc' = [pc EXCEPT ![t] = "except"]
              /\ failure' = [failure EXCEPT
                               ![t] = Exc("FPDFException", "write_html")]
    /\ UNCHANGED <<FONTS_DIR, fs, form_data, tried, loaded,
                   messages_html_list, messages_html, html_body, propagated,
                   ret, calls, rtlVars>>

\* pdf_bytes = pdf.output(): the engine serialises the document or raises
Output(t) ==
    /\ pc[t] = "output"
    /\ log' = [log EXCEPT ![t] = Append(@, Step("output", 0))]
    /\ \E ok \in BOOLEAN :
         IF ok THEN /\ pc' = [pc EXCEPT ![t] = "return"]
                    /\ UNCHANGED failure
         ELSE /\ pc' = [pc EXCEPT ![t] = "except"]
              /\ failure' = [failure EXCEPT
                               ![t] = Exc("FPDFException", "output")]
    /\ UNCHANGED <<FONTS_DIR, fs, form_data, tried, loaded,
                   messages_html_list, messages_html, html_body, propagated,
                   ret, calls, rtlVars>>

\* the bytes of the PDF that renders a document
PdfOf(body) == [is_none |-> FALSE, pdf |-> body]
NoBytes == [is_none |-> TRUE, pdf |-> NoHtml]

\* return bytes(pdf_bytes)
Return(t) ==
    /\ pc[t] = "return"
    /\ ret' = [ret EXCEPT ![t] = PdfOf(html_body[t])]
    /\ pc' = [pc EXCEPT ![t] = "returned"]
    /\ UNCHANGED <<FONTS_DIR, fs, form_data, tried, loaded,
                   messages_html_list, messages_html, html_body, failure,
                   propagated, log, calls, rtlVars>>

\* a variant that raises a new exception in place of the one caught
ExceptHandlerWrap(e) == Exc("GenerationError", e.where)

\* except Exception as e: raise e
ExceptHandler(e) == e

Except(t) ==
    /\ pc[t] = "except"
    /\ propagated' = [propagated EXCEPT ![t] = ExceptHandler(failure[t])]
    /\ pc' = [pc EXCEPT ![t] = "raised"]
    /\ UNCHANGED <<FONTS_DIR, fs, form_data, tried, loaded,
                   messages_html_list, messages_html, html_body, failure,
                   ret, log, calls, rtlVars>>

CallStep(t) ==
    \/ Begin(t) \/ Check1(t) \/ Assign1(t) \/ Check2(t) \/ Assign2(t)
    \/ AddFont(t) \/ Configure(t) \/ BuildMessage(t) \/ Assemble(t)
    \/ WriteHtml(t) \/ Output(t) \/ Return(t) \/ Except(t)

(***************************************************************************)
(* A new call on a new PDFGenerator instance, after the previous call of   *)
(* the thread has ended; and a change of the file system, which nothing    *)
(* keeps from happening while calls run.                                   *)
(***************************************************************************)
MaxCalls == 2

NewCall(t) ==
    /\ pc[t] \in {"returned", "raised"}
    /\ calls < MaxCalls
    /\ calls' = calls + 1
    /\ pc' = [pc EXCEPT ![t] = "start"]
    /\ tried' = [tried EXCEPT ![t] = <<>>]
    /\ loaded' = [loaded EXCEPT ![t] = <<>>]
    /\ messages_html_list' = [messages_html_list EXCEPT ![t] = <<>>]
    /\ messages_html' = [messages_html EXCEPT ![t] = NoHtml]
    /\ html_body' = [html_body EXCEPT ![t] = NoHtml]
    /\ failure' = [failure EXCEPT ![t] = NoExc]
    /\ propagated' = [propagated EXCEPT ![t] = NoExc]
    /\ ret' = [ret EXCEPT ![t] = NoBytes]
    /\ log' = [log EXCEPT ![t] = <<>>]
    /\ UNCHANGED <<FONTS_DIR, fs, form_data, rtlVars>>

\* a font directory is created or removed, or a font file of it is: the
\* tests of lines 140 and 144 and the add_font calls read the file system
\* without a lock, so it changes at any point of a call
FsChange ==
    /\ \E d \in Dirs, s \in DirStates :
         s # fs[d] /\ fs' = [fs EXCEPT ![d] = s]
    /\ UNCHANGED <<FONTS_DIR, form_data, pc, tried, loaded,
                   messages_html_list, messages_html, html_body, failure,
                   propagated, ret, log, calls, rtlVars>>

(***************************************************************************)
(* contains_rtl(text), then fix_rtl(text, width) statement by statement    *)
(***************************************************************************)
ContainsRtl ==
    /\ rpc = "detect"
    /\ detected' = contains_rtl(text)
    /\ rpc' = "wrap"
    /\ UNCHANGED <<text, width, wrapped_lines, processed_lines, reshaped,
                   result, raised, callVars>>

\* wrapped_lines = r, or the exception of textwrap.wrap leaves fix_rtl
RecordWrapped(r) ==
    IF r.exc = "none"
    THEN wrapped_lines' = r.v /\ rpc' = "loop" /\ UNCHANGED raised
    ELSE raised' = Exc(r.exc, r.where) /\ rpc' = "raised"
         /\ UNCHANGED wrapped_lines

\* wrapped_lines = textwrap.wrap(text, width=width); processed_lines = []
WrapText ==
    /\ rpc = "wrap"
    /\ RecordWrapped(textwrap_wrap(text, width))
    /\ processed_lines' = <<>>
    /\ UNCHANGED <<text, width, reshaped, result, detected, callVars>>

\* processed_lines.append(r), or the exception of reshape or get_display
\* leaves fix_rtl
RecordLine(line, r) ==
    IF r.exc = "none"
    THEN /\ reshaped' = Append(reshaped, HasArabic(line))
         /\ processed_lines' = Append(processed_lines, r.v)
         /\ UNCHANGED <<rpc, raised>>
    ELSE /\ raised' = Exc(r.exc, r.where)
         /\ rpc' = "raised"
         /\ UNCHANGED <<reshaped, processed_lines>>

\* one iteration of the for loop over wrapped_lines
ProcessNextLine ==
    /\ rpc = "loop"
    /\ Len(processed_lines) < Len(wrapped_lines)
    /\ RecordLine(wrapped_lines[Len(processed_lines) + 1],
                  ProcessLine(wrapped_lines[Len(processed_lines) + 1]))
    /\ UNCHANGED <<text, width, wrapped_lines, result, detected, callVars>>

\* return "\n".join(processed_lines)
JoinLines ==
    /\ rpc = "loop"
    /\ Len(processed_lines) = Len(wrapped_lines)
    /\ result' = JoinWith(processed_lines, <<CP.nl>>)
    /\ rpc' = "done"
    /\ UNCHANGED <<text, width, wrapped_lines, processed_lines, reshaped,
                   raised, detected, callVars>>

(***************************************************************************)
(* Inputs                                                                  *)
(***************************************************************************)
MaxMsgs == 2

RECURSIVE SeqsUpTo(_, _)
\* the sequences over S of length at most n
SeqsUpTo(S, n) ==
    IF n = 0 THEN {<<>>}
    ELSE LET shorter == SeqsUpTo(S, n - 1)
         IN  shorter \cup {Append(q, e) : q \in shorter, e \in S}

Forms ==
    { [title |-> ti, messages |-> ms] :
        ti \in TitlePool, ms \in SeqsUpTo(MessagePool, MaxMsgs) }

\* the form of the calls that only differ in what the file system holds
PlainForm ==
    [title |-> STR.hi,
     messages |-> <<Message(PyStr(STR.user), PyStr(STR.hi), Absent, Absent)>>]

\* chats whose rendering succeeds, or fails in a fragment or in the title
FailPool ==
    { Message(PyStr(STR.user), PyStr(STR.hi), Absent, Absent),
      Message(PyStr(STR.assistant), PyStr(<<CP.a>>), Absent, Absent),
      Message(PyStr(STR.user), PyStr(<<CP.a>>), Absent, PyFloat("1e17")) }
FailForms ==
    { [title |-> ti, messages |-> ms] :
        ti \in {STR.hi, <<CP.lt, CP.zwj, CP.lam, CP.arAlef>>},
        ms \in SeqsUpTo(FailPool, MaxMsgs) }

MaxLen == 3
RtlAlphabet ==
    { CP.a, CP.sp, CP.lt, CP.cjk, CP.arAin, CP.arAlef, CP.arSupBeh,
      CP.hebAlef, CP.syrAlaph, CP.thaHaa, CP.samAlaf }
\* the widths of the lines: the default of fix_rtl, the only width this file
\* calls it with, and widths that make a text of MaxLen characters wrap into
\* several lines
Widths == {1, 2, DefaultWidth}

\* longer texts: hyphenated words, blank chunks of no-break and ideographic
\* spaces, ligatures, harakat, a ZWJ, numbers and brackets, an embedding and
\* an isolate
TextPool ==
    { <<CP.arAin, CP.sp, CP.a, CP.a, CP.hyphen, CP.a, CP.a>>,
      <<CP.a, CP.a, CP.sp, CP.nbsp>>,
      <<CP.arAin, CP.sp, CP.ideoSp>>,
      <<CP.zwj, CP.lam, CP.arAlef>>,
      <<CP.a, CP.lri, CP.a>>,
      <<CP.a, CP.sp, CP.arAin, CP.lri>>,
      <<CP.arAlef, CP.lam, CP.lam, CP.heh>>,
      <<CP.lam, CP.fatha, CP.arAlef, CP.sp, CP.lam, CP.arAin>>,
      <<CP.hebAlef, CP.sp, 40, CP.zero + 1, 43, CP.zero + 2, 41>>,
      <<CP.a, CP.rle, CP.a, CP.hebAlef, CP.pdf, CP.laquo>> }

(***************************************************************************)
(* Specifications                                                          *)
(***************************************************************************)
CallInit(threads, forms, fss) ==
    /\ FONTS_DIR = "primary"
    /\ fs \in fss
    /\ form_data \in [threads -> forms]
    /\ pc = [t \in threads |-> "start"]
    /\ tried = [t \in threads |-> <<>>]
    /\ loaded = [t \in threads |-> <<>>]
    /\ messages_html_list = [t \in threads |-> <<>>]
    /\ messages_html = [t \in threads |-> NoHtml]
    /\ html_body = [t \in threads |-> NoHtml]
    /\ failure = [t \in threads |-> NoExc]
    /\ propagated = [t \in threads |-> NoExc]
    /\ ret = [t \in threads |-> NoBytes]
    /\ log = [t \in threads |-> <<>>]
    /\ calls = 1

RtlIdle ==
    /\ text = <<>> /\ width = DefaultWidth /\ rpc = "idle"
    /\ wrapped_lines = <<>> /\ processed_lines = <<>> /\ reshaped = <<>>
    /\ result = <<>> /\ raised = NoExc /\ detected = FALSE

\* one generation call of any chat, on a file system that stays as it is:
\* each directory is missing or complete, or all lack the same font file
Init ==
    /\ CallInit({1}, Forms,
                [Dirs -> {NoDir, DirWith(AllFonts)}]
                \cup { [d \in Dirs |-> DirWith(AllFonts \ {k})] :
                         k \in MissingFonts })
    /\ RtlIdle
Next == \E t \in DOMAIN pc : CallStep(t)
Spec == Init /\ [][Next]_vars

\* one generation call while the file system changes under it
InitFs == CallInit({1}, FailForms, [Dirs -> DirStates]) /\ RtlIdle
NextFs == (\E t \in DOMAIN pc : CallStep(t)) \/ FsChange
SpecFs == InitFs /\ [][NextFs]_vars

\* two concurrent generation calls, each on its own instance, on a file
\* system that stays as it is
InitConc == CallInit({1, 2}, {PlainForm}, [Dirs -> DirStates]) /\ RtlIdle
NextConc == \E t \in DOMAIN pc : CallStep(t)
SpecConc == InitConc /\ [][NextConc]_vars

\* a sequence of generation calls; of the changes of the file system only
\* those between two calls are followed
BetweenCalls == \A t \in DOMAIN pc : pc[t] \in {"returned", "raised"}
InitSeq == CallInit({1}, {PlainForm}, [Dirs -> DirStates]) /\ RtlIdle
NextSeq ==
    \/ \E t \in DOMAIN pc : CallStep(t) \/ NewCall(t)
    \/ BetweenCalls /\ FsChange
SpecSeq == InitSeq /\ [][NextSeq]_vars

\* the RTL detector and normaliser on one text
InitRtl ==
    /\ CallInit({}, {PlainForm}, {[d \in Dirs |-> DirWith(AllFonts)]})
    /\ text \in SeqsUpTo(RtlAlphabet, MaxLen) \cup TextPool
    /\ width \in Widths
    /\ rpc = "detect"
    /\ wrapped_lines = <<>> /\ processed_lines = <<>> /\ reshaped = <<>>
    /\ result = <<>> /\ raised = NoExc /\ detected = FALSE
NextRtl == ContainsRtl \/ WrapText \/ ProcessNextLine \/ JoinLines
SpecRtl == InitRtl /\ [][NextRtl]_vars

(***************************************************************************)
(* Properties                                                              *)
(***************************************************************************)
Running(t) == pc[t] \notin {"returned", "raised"}

\* the message takes the RTL path of _build_html_message
TakesRtlPath(message) ==
    /\ message.content.t = "str"
    /\ contains_rtl(escape(message.content.s))

\* the renderings of the messages of the pool, under every UTC offset
Rendered ==
    [msg \in MessagePool |->
       { build_html_message(msg, utcoffset) : utcoffset \in UtcOffsets }]

Renderings(message) == Rendered[message]

\* C1: the fragments built so far are the renderings of the first messages,
\* in order, and messages_html holds exactly one fragment per message, the
\* i-th being the rendering of the i-th message.
MessageOrder ==
    \A t \in DOMAIN pc :
      /\ Len(messages_html_list[t]) <= Len(form_data[t].messages)
      /\ \A i \in 1..Len(messages_html_list[t]) :
           Ok(messages_html_list[t][i]) \in Renderings(form_data[t].messages[i])
      /\ ~messages_html[t].is_none =>
           /\ Len(messages_html[t].fragments) = Len(form_data[t].messages)
           /\ \A i \in 1..Len(form_data[t].messages) :
                Ok(messages_html[t].fragments[i])
                  \in Renderings(form_data[t].messages[i])

\* a document of two messages is assembled, one of them on the RTL path
MessageOrderWitness ==
    \E t \in DOMAIN pc :
      /\ ~messages_html[t].is_none
      /\ Len(form_data[t].messages) = 2
      /\ TakesRtlPath(form_data[t].messages[1])
      /\ ~TakesRtlPath(form_data[t].messages[2])
      /\ form_data[t].messages[1] # form_data[t].messages[2]

NoAngle(s) == CP.lt \notin Chars(s) /\ CP.gt \notin Chars(s)

RECURSIVE StripBr(_)
\* s without the "<br/>" markers
StripBr(s) ==
    IF s = <<>> THEN <<>>
    ELSE IF Len(s) >= Len(STR.br) /\ SubSeq(s, 1, Len(STR.br)) = STR.br
    THEN StripBr(SubSeq(s, Len(STR.br) + 1, Len(s)))
    ELSE <<Head(s)>> \o StripBr(Tail(s))

FragmentSafe(f) ==
    /\ NoAngle(f.role)
    /\ NoAngle(f.model)
    /\ NoAngle(StripBr(f.content))

\* C2: the title, and the role, model name and content of every fragment,
\* hold no '<' and no '>' apart from the "<br/>" markers of line breaks.
NoMarkupFromUserText ==
    \A t \in DOMAIN pc :
      /\ \A i \in 1..Len(messages_html_list[t]) :
           FragmentSafe(messages_html_list[t][i])
      /\ ~html_body[t].is_none =>
           /\ NoAngle(html_body[t].title)
           /\ \A i \in 1..Len(html_body[t].fragments) :
                FragmentSafe(html_body[t].fragments[i])

HasAngle(v) == v.t = "str" /\ (CP.lt \in Chars(v.s) \/ CP.gt \in Chars(v.s))

\* a document is assembled whose title and one of whose messages hold angle
\* brackets and take the RTL path, the role of that message holding some too
NoMarkupWitness ==
    \E t \in DOMAIN pc :
      /\ ~html_body[t].is_none
      /\ contains_rtl(form_data[t].title)
      /\ HasAngle(PyStr(form_data[t].title))
      /\ \E i \in 1..Len(form_data[t].messages) :
           /\ TakesRtlPath(form_data[t].messages[i])
           /\ HasAngle(form_data[t].messages[i].content)
           /\ HasAngle(form_data[t].messages[i].role)
           /\ CP.nl \in Chars(form_data[t].messages[i].content.s)

\* C3: format_timestamp never raises, so no call fails in it.
FormatTimestampNeverRaises ==
    \A t \in DOMAIN pc : failure[t].where # "format_timestamp"

NoDuplicates(q) == \A i, j \in 1..Len(q) : q[i] = q[j] => i = j

\* C4: while the file system changes under the call, a call that raised
\* returned no bytes and passed on the very failure that ended it, whatever
\* step failed and however many fonts were loaded by then; a call that
\* returned met no failure, had loaded every font and returned the PDF of the
\* whole document; a failure ends the call, and no step runs twice.
AllOrNothing ==
    \A t \in DOMAIN pc :
      /\ pc[t] = "raised" =>
           /\ ret[t] = NoBytes
           /\ failure[t] # NoExc
           /\ propagated[t] = failure[t]
      /\ pc[t] = "returned" =>
           /\ failure[t] = NoExc /\ propagated[t] = NoExc
           /\ ret[t] = PdfOf(html_body[t])
           /\ Len(html_body[t].fragments) = Len(form_data[t].messages)
           /\ Len(loaded[t]) = NumFonts
      /\ pc[t] # "returned" => ret[t] = NoBytes
      /\ failure[t] # NoExc => pc[t] \in {"except", "raised"}
      /\ NoDuplicates(log[t])

\* a call has raised because a font file was missing in a directory that
\* exists, after it had loaded some of the fonts
AllOrNothingWitness ==
    \E t \in DOMAIN pc :
      /\ pc[t] = "raised"
      /\ failure[t].where = "add_font"
      /\ Len(loaded[t]) \in 1..(NumFonts - 1)
      /\ fs[FONTS_DIR].exists
      /\ propagated[t] = Exc("FileNotFoundError", "add_font")

\* the directory a call resolves to when it runs alone
AloneDir(f) ==
    IF f["primary"].exists THEN "primary"
    ELSE IF f["site"].exists THEN "site" ELSE "relative"

\* C5: under every interleaving each call loads all its fonts from the
\* directory it would load them from alone, and fails in add_font only if it
\* would fail there alone.
ConcurrentCallsAsAlone ==
    \A t \in DOMAIN pc :
      /\ \A k \in 1..Len(loaded[t]) : loaded[t][k] = AloneDir(fs)
      /\ failure[t].where = "add_font"
           => fs[AloneDir(fs)].fonts # AllFonts

\* the ranges of the five scripts the detector is to cover
InFiveScripts(c) ==
    \/ InRange(c, 1536, 1791) \/ InRange(c, 1872, 1919)     \* Arabic
    \/ InRange(c, 64336, 65023) \/ InRange(c, 65136, 65279)
    \/ InRange(c, 1424, 1535)                               \* Hebrew
    \/ InRange(c, 1792, 1871)                               \* Syriac
    \/ InRange(c, 1920, 1983)                               \* Thaana
    \/ InRange(c, 2048, 2111)                               \* Samaritan

\* C6: contains_rtl(text) is true exactly when text has a character of the
\* Arabic, Hebrew, Syriac, Thaana or Samaritan ranges.
DetectsFiveScripts ==
    rpc \in {"wrap", "loop", "done"} =>
      (detected <=> \E i \in 1..Len(text) : InFiveScripts(text[i]))

ClaimedModelText(message) ==
    IF Get(message, "role", PyStr(STR.user)) = PyStr(STR.assistant)
       /\ Get(message, "model", None).t = "str"
    THEN escape(message.model.s) ELSE <<>>

\* C7: every message renders, an assistant message without a model name
\* too, and the model text of its fragment is the escaped model name if the
\* role is "assistant" and a name is given, and empty otherwise.
ModelTextAsClaimed ==
    \A t \in DOMAIN pc :
      /\ failure[t].where # "model"
      /\ \A i \in 1..Len(messages_html_list[t]) :
           messages_html_list[t][i].model
             = ClaimedModelText(form_data[t].messages[i])

\* the first usable directory in the order primary, site, relative
FirstUsable(f) ==
    IF f["primary"].exists THEN "primary"
    ELSE IF f["site"].exists THEN "site" ELSE "relative"

\* C8: every call tests the primary directory first and loads its fonts from
\* the first directory that is usable at that call.
FirstUsableEachCall ==
    \A t \in DOMAIN pc :
      Running(t) =>
        /\ tried[t] # <<>> => tried[t][1] = "primary"
        /\ \A k \in 1..Len(loaded[t]) : loaded[t][k] = FirstUsable(fs)

FormattedDates(v) == { strftime(LocalTime(v + o)) : o \in UtcOffsets }

\* C9: the timestamp line of a fragment is the formatted date when the
\* timestamp is present and convertible, 0 included, and is empty only when
\* the timestamp is absent or invalid.
TimestampLineAsClaimed ==
    \A t \in DOMAIN pc :
      \A i \in 1..Len(messages_html_list[t]) :
        Get(form_data[t].messages[i], "timestamp", None).t = "int" =>
          messages_html_list[t][i].date_str
            \in FormattedDates(form_data[t].messages[i].timestamp.v)

\* the line holds a character of the Arabic block U+0600..U+06FF
InArabicBlock(line) == \E i \in 1..Len(line) : InRange(line[i], 1536, 1791)

\* the shaping transform, then the bidi pass
ShapedThenDisplayed(shaped) ==
    IF shaped.exc = "none" THEN get_display(shaped.v) ELSE shaped

ExpectedLine(line) ==
    IF InArabicBlock(line) THEN ShapedThenDisplayed(reshape(line))
    ELSE get_display(line)

\* C10: the lines are taken in order; a line is reshaped exactly when it
\* holds a character of the Arabic block; every line, reshaped or not, goes
\* through the bidi pass once; the result is the processed lines joined by
\* newlines in the order of the wrapped lines; the empty text gives the
\* empty result.  The call ends early only with the exception that the
\* shaping transform or the bidi pass raises on the line at hand.
FixRtlLineByLine ==
    /\ rpc \in {"loop", "done", "raised"} =>
         /\ Len(processed_lines) <= Len(wrapped_lines)
         /\ Len(reshaped) = Len(processed_lines)
         /\ \A i \in 1..Len(processed_lines) :
              /\ reshaped[i] <=> InArabicBlock(wrapped_lines[i])
              /\ Ok(processed_lines[i]) = ExpectedLine(wrapped_lines[i])
    /\ rpc = "done" =>
         /\ Len(processed_lines) = Len(wrapped_lines)
         /\ result = JoinWith(processed_lines, <<CP.nl>>)
         /\ Ok(result) = fix_rtl(text, width)
    /\ rpc = "raised" =>
         /\ Len(processed_lines) < Len(wrapped_lines)
         /\ raised.exc
              = ExpectedLine(wrapped_lines[Len(processed_lines) + 1]).exc
         /\ raised.exc = fix_rtl(text, width).exc
    /\ text = <<>> =>
         /\ rpc # "raised"
         /\ rpc = "done" => result = <<>>

\* a text of several lines is done: one line reshaped, one a line of another
\* RTL script and not reshaped
FixRtlWitness ==
    /\ rpc = "done"
    /\ Len(wrapped_lines) >= 2
    /\ \E i, j \in 1..Len(wrapped_lines) :
         /\ reshaped[i] /\ processed_lines[i] # wrapped_lines[i]
         /\ ~reshaped[j] /\ contains_rtl(wrapped_lines[j])
         /\ processed_lines[j] = wrapped_lines[j]

====
